---- MODULE Spec2Model ----
(***************************************************************************)
(* Vector memory subsystem of Te_Po: the retry decorator of               *)
(* utils/supabase_client.py, the SQLite fallback store of                  *)
(* utils/offline_store.py, the pgvector client and the offline/live        *)
(* dispatch of utils/pgvector_client.py, the embedding helper of           *)
(* utils/openai_client.py and the routes that call them.                   *)
(***************************************************************************)
EXTENDS Integers, Sequences, FiniteSets, TLC

None == "None"

(***************************************************************************)
(* Bounds of the model.                                                    *)
(***************************************************************************)
MaxTimes == 3
MaxDelay == 2
MaxInserts == 2
MaxTime == 1
MaxTopK == 2
MaxNameLen == 5
MaxDim == 2
MaxThreads == 2

(***************************************************************************)
(* State of the memory subsystem.                                          *)
(***************************************************************************)
VARIABLES
    offline_mode,  \* settings.offline_mode, read through the cached get_settings()
    now,           \* the clock behind CURRENT_TIMESTAMP, in whole seconds
    local,         \* the SQLite file: table name -> rows in rowid order
    remote,        \* the pgvector tables: rows in insertion order, each with its table
    next_id,       \* source of fresh ids (uuid4 locally, RETURNING id remotely)
    op             \* the last finished call: its arguments, outcome and footprint

memVars == <<offline_mode, now, local, remote, next_id, op>>

VARIABLE ident_name  \* the table argument of the direct PGVectorClient calls

(***************************************************************************)
(* State of the calls that are examined on their own.                      *)
(***************************************************************************)
VARIABLES
    cos_a,    \* cosine_similarity: the argument a
    cos_b,    \* cosine_similarity: the argument b
    cos_out   \* cosine_similarity: what the call did

cosVars == <<cos_a, cos_b, cos_out>>

\* no call of cosine_similarity yet
NoCosine == [called |-> FALSE, raised |-> FALSE, num |-> 0, den2 |-> 1]
CosIdle == cos_a = << >> /\ cos_b = << >> /\ cos_out = NoCosine

VARIABLE embed_log  \* generate_embedding: text -> the vectors it returned for it, and
                    \* whether it was called for it never, once or more often (0, 1, 2)

embVars == <<embed_log>>

VARIABLES
    c_cache,   \* getter -> the cached client object (0: none yet)
    c_pc,      \* thread -> where it is in its call of a getter
    c_getter,  \* thread -> the getter it is calling
    c_obj,     \* thread -> the client object it has constructed (0: none)
    c_handle,  \* thread -> the client object its call returned (0: none)
    c_built    \* getter -> how many client objects have been constructed

cliVars == <<c_cache, c_pc, c_getter, c_obj, c_handle, c_built>>

\* the cached getters: get_pgvector_client and get_openai_client are
\* wrapped in functools.lru_cache, get_supabase_client keeps a module global
Getters == {"pgvector", "openai", "supabase"}
Threads == 1..MaxThreads

CliIdle ==
    /\ c_cache = [g \in Getters |-> 0]
    /\ c_pc = [t \in Threads |-> "idle"]
    /\ c_getter = [t \in Threads |-> "pgvector"]
    /\ c_obj = [t \in Threads |-> 0]
    /\ c_handle = [t \in Threads |-> 0]
    /\ c_built = [g \in Getters |-> 0]

VARIABLES
    q_file,       \* data/tiwhanawhana.db: the committed rows of one table
    q_lock,       \* the connection that holds the write lock of the file, or "none"
    q_pc,         \* thread -> where it is in insert_record or prune_embeddings
    q_snap,       \* thread -> the rows its connection read when its transaction began
    q_row,        \* thread -> the row its INSERT adds
    q_del,        \* thread -> its prune: keep, the ids it read and the ids it deletes
    q_prune,      \* the last prune that committed, with the rows present at its commit
    q_ret,        \* thread -> the id its last insert_record returned (0: none, -1: it raised)
    q_seen,       \* the rows the last fetch_records returned
    q_committed,  \* ids of the inserts that have committed
    q_deleted,    \* ids deleted by prunes that have committed
    q_next        \* source of fresh uuid4 ids

dbVars == <<q_file, q_lock, q_pc, q_snap, q_row, q_del, q_prune, q_ret, q_seen,
            q_committed, q_deleted, q_next>>

NoRow == [id |-> 0, content |-> << >>, embedding |-> << >>, created_at |-> 0]

NoPrune == [done |-> FALSE, keep |-> 0, read |-> {}, ids |-> {}, present |-> {}]

\* the connections open at the same time, one per running call
Connections == {"c1", "c2"}

DbIdle ==
    /\ q_file = {} /\ q_lock = "none"
    /\ q_pc = [t \in Connections |-> "idle"]
    /\ q_snap = [t \in Connections |-> {}]
    /\ q_row = [t \in Connections |-> NoRow]
    /\ q_del = [t \in Connections |-> NoPrune]
    /\ q_prune = NoPrune
    /\ q_ret = [t \in Connections |-> 0]
    /\ q_seen = {} /\ q_committed = {} /\ q_deleted = {} /\ q_next = 1

VARIABLE a_cancelled_at  \* how many calls and sleeps of inner had happened when the
                         \* task awaiting ainsert_record was cancelled (-1: not cancelled)

taskVars == <<a_cancelled_at>>

TaskIdle == a_cancelled_at = 0 - 1

VARIABLES
    e_handler,  \* request -> the route handler serving it
    e_step,     \* request -> index of its next blocking call
    e_pc,       \* request -> "idle", "ready" (coroutine runnable) or "blocked" (in a call)
    e_thread    \* request -> the thread its blocking call runs on: "loop" or "worker"

loopVars == <<e_handler, e_step, e_pc, e_thread>>

Requests == 1..MaxThreads

LoopIdle ==
    /\ e_handler = [r \in Requests |-> "none"]
    /\ e_step = [r \in Requests |-> 0]
    /\ e_pc = [r \in Requests |-> "idle"]
    /\ e_thread = [r \in Requests |-> "none"]

VARIABLES
    s_wrapper,   \* the Supabase wrapper being called
    s_pc,        \* "idle", "impl" (inside the retried helper), "done" or "raised"
    s_client,    \* whether get_supabase_client returned a client
    s_response   \* the SupabaseResponse returned

supVars == <<s_wrapper, s_pc, s_client, s_response>>

NoResponse == [data |-> None, count |-> 0, error |-> None, ok |-> TRUE]

SupIdle ==
    /\ s_wrapper = "none" /\ s_pc = "idle" /\ s_client = FALSE
    /\ s_response = NoResponse

VARIABLE repeated  \* whether the search that finished last repeated the call before it

histVars == <<repeated>>

HistIdle == repeated = FALSE

auxVars == <<cosVars, embVars, cliVars, dbVars, taskVars, loopVars, supVars, histVars>>

(***************************************************************************)
(* retry(times, delay) of utils/supabase_client.py.                        *)
(* Delays are counted in units of half a second (the default delay 0.5 s   *)
(* is 1 unit); the wrapped function is an arbitrary callable, so every     *)
(* invocation either returns a value or raises an error of the caller's    *)
(* choosing.                                                               *)
(***************************************************************************)
Errors == {"e1", "e2"}
Values == {"v1", "v2"}

VARIABLES
    r_times,           \* retry: the times argument
    r_delay,           \* retry: the delay argument
    r_attempt,         \* inner: the loop variable attempt
    r_pc,              \* inner: "loop", "sleep", "returned", "raised", "idle"
    r_last_exception,  \* inner: last_exception
    r_wait_time,       \* inner: wait_time of the pending sleep
    r_result,          \* value returned by inner, or the error it raised
    r_events,          \* log of fn invocations and time.sleep calls, in order
    r_outcomes         \* outcome of each fn invocation, in order

retryVars == <<r_times, r_delay, r_attempt, r_pc, r_last_exception,
               r_wait_time, r_result, r_events, r_outcomes>>

WaitTimeConstant(delay, attempt) == delay

\* wait_time = delay * (2 ** attempt)
WaitTime(delay, attempt) == delay * (2 ^ attempt)

\* if attempt < times - 1
ShouldSleep(attempt, times) == attempt < times - 1

KeepFirstException(previous, e) == IF previous = None THEN e ELSE previous

\* last_exception = e
RecordException(previous, e) == e

RetryIdle ==
    /\ r_times = 0 /\ r_delay = 0 /\ r_attempt = 0 /\ r_pc = "idle"
    /\ r_last_exception = None /\ r_wait_time = 0 /\ r_result = None
    /\ r_events = << >> /\ r_outcomes = << >>

\* inner is entered: last_exception = None, the for loop starts at attempt 0
RetryInit ==
    /\ r_times \in 0..MaxTimes
    /\ r_delay \in 1..MaxDelay
    /\ r_attempt = 0
    /\ r_pc = "loop"
    /\ r_last_exception = None
    /\ r_wait_time = 0
    /\ r_result = None
    /\ r_events = << >>
    /\ r_outcomes = << >>

\* try: return fn(*args, **kwargs)
RetryCallReturns ==
    /\ r_pc = "loop" /\ r_attempt < r_times
    /\ \E v \in Values :
        /\ r_result' = v
        /\ r_outcomes' = Append(r_outcomes, [ok |-> TRUE, val |-> v])
    /\ r_events' = Append(r_events, [kind |-> "call", attempt |-> r_attempt + 1, dur |-> 0])
    /\ r_pc' = "returned"
    /\ UNCHANGED <<r_times, r_delay, r_attempt, r_last_exception, r_wait_time>>
    /\ UNCHANGED <<memVars, ident_name, auxVars>>

\* except Exception as e: the body up to, not including, time.sleep
RetryCallRaises ==
    /\ r_pc = "loop" /\ r_attempt < r_times
    /\ \E e \in Errors :
        /\ r_last_exception' = RecordException(r_last_exception, e)
        /\ r_outcomes' = Append(r_outcomes, [ok |-> FALSE, val |-> e])
    /\ r_events' = Append(r_events, [kind |-> "call", attempt |-> r_attempt + 1, dur |-> 0])
    /\ IF ShouldSleep(r_attempt, r_times)
         THEN /\ r_wait_time' = WaitTime(r_delay, r_attempt)
              /\ r_pc' = "sleep"
              /\ r_attempt' = r_attempt
         ELSE /\ r_wait_time' = r_wait_time
              /\ r_pc' = "loop"
              /\ r_attempt' = r_attempt + 1
    /\ UNCHANGED <<r_times, r_delay, r_result>>
    /\ UNCHANGED <<memVars, ident_name, auxVars>>

\* time.sleep(wait_time), then the next iteration of the loop
RetrySleep ==
    /\ r_pc = "sleep"
    /\ r_events' = Append(r_events, [kind |-> "sleep", attempt |-> r_attempt + 1, dur |-> r_wait_time])
    /\ r_attempt' = r_attempt + 1
    /\ r_pc' = "loop"
    /\ UNCHANGED <<r_times, r_delay, r_last_exception, r_wait_time, r_result, r_outcomes>>
    /\ UNCHANGED <<memVars, ident_name, auxVars>>

\* after the loop: if last_exception: raise last_exception (else falls off
\* the end and returns None)
RetryExit ==
    /\ r_pc = "loop" /\ r_attempt >= r_times
    /\ IF r_last_exception # None
         THEN r_pc' = "raised" /\ r_result' = r_last_exception
         ELSE r_pc' = "returned" /\ r_result' = None
    /\ UNCHANGED <<r_times, r_delay, r_attempt, r_last_exception, r_wait_time,
                   r_events, r_outcomes>>
    /\ UNCHANGED <<memVars, ident_name, auxVars>>

(***************************************************************************)
(* Text.  A string is a sequence of one-character strings, so that         *)
(* str.split, str.strip and the regular expression can be computed.        *)
(***************************************************************************)
Letters == {"a", "b", "d", "e", "i", "m", "n", "o", "r", "t", "y"}
Digits == {"1"}
Whitespace == {" "}

\* str.strip(): drop leading and trailing whitespace
RECURSIVE LStrip(_)
LStrip(s) == IF s # << >> /\ Head(s) \in Whitespace THEN LStrip(Tail(s)) ELSE s

RECURSIVE RStrip(_)
RStrip(s) ==
    IF s # << >> /\ s[Len(s)] \in Whitespace
      THEN RStrip(SubSeq(s, 1, Len(s) - 1))
      ELSE s

Strip(s) == RStrip(LStrip(s))

\* str.split("."): the segments between the dots, empty ones included
RECURSIVE SplitFrom(_, _, _)
SplitFrom(s, i, cur) ==
    IF i > Len(s) THEN <<cur>>
    ELSE IF s[i] = "." THEN <<cur>> \o SplitFrom(s, i + 1, << >>)
    ELSE SplitFrom(s, i + 1, Append(cur, s[i]))

Split(s) == SplitFrom(s, 1, << >>)

\* [part.strip() for part in name.split(".") if part.strip()]
StrippedParts(name) ==
    LET segs == Split(name)
        kept == SelectSeq(segs, LAMBDA p : Strip(p) # << >>)
    IN [i \in 1..Len(kept) |-> Strip(kept[i])]

\* _TABLE_NAME_PATTERN = ^[A-Za-z_][A-Za-z0-9_]*$
MatchesTableNamePattern(part) ==
    /\ part # << >>
    /\ part[1] \in Letters \cup {"_"}
    /\ \A i \in 1..Len(part) : part[i] \in Letters \cup Digits \cup {"_"}

TooManyPartsUnchecked(parts) == parts = << >>

\* if not parts or len(parts) > 2
WrongPartCount(parts) == parts = << >> \/ Len(parts) > 2

\* _identifier_parts(name): ok = FALSE stands for the ValueError
IdentifierParts(name) ==
    LET parts == StrippedParts(name) IN
    IF WrongPartCount(parts) THEN [ok |-> FALSE, parts |-> << >>]
    ELSE IF \E i \in 1..Len(parts) : ~MatchesTableNamePattern(parts[i])
      THEN [ok |-> FALSE, parts |-> << >>]
      ELSE [ok |-> TRUE, parts |-> parts]

\* _SUPPORTED_TABLES
TiMemory == <<"t", "i", "_", "m", "e", "m", "o", "r", "y">>
EmbeddingsTable == <<"e", "m", "b", "e", "d", "d", "i", "n", "g", "s">>
SupportedTables ==
    { <<"o", "c", "r", "_", "l", "o", "g", "s">>,
      <<"t", "r", "a", "n", "s", "l", "a", "t", "i", "o", "n", "s">>,
      EmbeddingsTable,
      TiMemory,
      <<"t", "a", "s", "k", "_", "q", "u", "e", "u", "e">>,
      <<"m", "a", "u", "r", "i", "_", "l", "o", "g", "s">> }

AcceptAnyTable(table) == [ok |-> TRUE, name |-> TiMemory]

\* _normalize_table_name(table): ok = FALSE stands for the ValueError
NormalizeTableName(table) ==
    LET parts == Split(table)
        normalized == Strip(parts[Len(parts)])
    IN IF normalized \notin SupportedTables
         THEN [ok |-> FALSE, name |-> << >>]
         ELSE [ok |-> TRUE, name |-> normalized]

(***************************************************************************)
(* Vectors and cosine similarity (utils/offline_store.py).                 *)
(* A similarity dot/(|a||b|) is kept exactly as the pair num = dot,        *)
(* den2 = |a|^2 |b|^2; a rational p/q is the pair num = p, den2 = q^2.     *)
(***************************************************************************)
\* sum(x * y for x, y in zip(a, b))
RECURSIVE DotFrom(_, _, _)
DotFrom(a, b, i) ==
    IF i > Len(a) \/ i > Len(b) THEN 0 ELSE a[i] * b[i] + DotFrom(a, b, i + 1)

Dot(a, b) == DotFrom(a, b, 1)

ZeroScore == [num |-> 0, den2 |-> 1]

Sign(x) == IF x < 0 THEN 0 - 1 ELSE 1

\* s < t as real numbers
ScoreLess(s, t) ==
    Sign(s.num) * s.num * s.num * t.den2 < Sign(t.num) * t.num * t.num * s.den2

ScoreEq(s, t) == ~ScoreLess(s, t) /\ ~ScoreLess(t, s)

ZeroNormIgnored(norm_a, norm_b) == FALSE

\* if norm_a == 0 or norm_b == 0
ZeroNorm(norm_a, norm_b) == norm_a = 0 \/ norm_b = 0

\* lengths compared before anything else
CosineLengthFirst(a, b) ==
    IF Len(a) # Len(b) THEN [err |-> TRUE, score |-> ZeroScore]
    ELSE IF Dot(a, a) = 0 \/ Dot(b, b) = 0 THEN [err |-> FALSE, score |-> ZeroScore]
    ELSE [err |-> FALSE, score |-> [num |-> Dot(a, b), den2 |-> Dot(a, a) * Dot(b, b)]]

\* cosine_similarity(a, b): err = TRUE stands for the ValueError
CosineSimilarity(a, b) ==
    IF a = << >> \/ b = << >> THEN [err |-> FALSE, score |-> ZeroScore]
    ELSE IF Len(a) # Len(b) THEN [err |-> TRUE, score |-> ZeroScore]
    ELSE LET norm2_a == Dot(a, a)
             norm2_b == Dot(b, b)
         IN IF ZeroNorm(norm2_a, norm2_b) THEN [err |-> FALSE, score |-> ZeroScore]
            ELSE [err |-> FALSE, score |-> [num |-> Dot(a, b), den2 |-> norm2_a * norm2_b]]

(***************************************************************************)
(* generate_embedding (utils/openai_client.py).  Offline it is the first   *)
(* 32 bytes of the SHA-256 digest of the text, each divided by 255.  The   *)
(* digest is replaced by a fixed arithmetic mixing function of the text    *)
(* with 2-bit "bytes" (components are in units of 1/3), which keeps what   *)
(* the code relies on: a pure function of the text of a fixed length.      *)
(***************************************************************************)
DigestLen == 32

CharCode(c) == IF c = "a" THEN 97 ELSE IF c = "b" THEN 98 ELSE 32

RECURSIVE CodeSum(_)
CodeSum(text) == IF text = << >> THEN 0 ELSE CharCode(Head(text)) + CodeSum(Tail(text))

DigestByte(text, i) ==
    LET S == CodeSum(text) + Len(text)
    IN ((S * i * i + S * S * i + 3 * i + S) % 7) % 4

\* the largest "byte": components are byte / ByteMax
ByteMax == 3

\* a vector that also depends on the clock
ClockSeededEmbedding(text) == [i \in 1..DigestLen |-> (DigestByte(text, i) + now) % (ByteMax + 1)]

\* [byte / 255.0 for byte in digest[:32]]
OfflineEmbedding(text) == [i \in 1..DigestLen |-> DigestByte(text, i)]

\* request texts: empty, blank and two words
Texts == { << >>, <<" ">>, <<"a">>, <<"b">> }

\* query texts: empty, blank and a word
Queries == { << >>, <<" ">>, <<"b">> }

\* nothing embedded yet
EmbIdle == embed_log = [t \in Texts |-> [vectors |-> {}, calls |-> 0]]

AuxIdle == CosIdle /\ EmbIdle /\ CliIdle /\ DbIdle /\ TaskIdle /\ LoopIdle /\ SupIdle /\ HistIdle

\* vectors the external embedding provider may answer with
ProviderVectors == { <<1, 0>>, <<1, 1>> }

\* (content, embedding) arguments of store_embedding calls: the embedding
\* of the content as generate_embedding gives it in that mode, and one
\* vector of another dimension
StoreInputs(offline) ==
    IF offline
      THEN { [content |-> <<"a">>, embedding |-> OfflineEmbedding(<<"a">>)],
             [content |-> <<"b">>, embedding |-> OfflineEmbedding(<<"b">>)],
             [content |-> <<"a">>, embedding |-> <<1, 0>>] }
      ELSE { [content |-> <<"a">>, embedding |-> <<1, 0>>],
             [content |-> <<"b">>, embedding |-> <<1, 1>>],
             [content |-> <<"a">>, embedding |-> <<1, 0, 0>>] }

\* query_vector arguments of direct search_embeddings calls
QueryVectors == { OfflineEmbedding(<<"b">>), <<1, 1>> }

\* min_similarity: float | None = Field(default=None, ge=0.0, le=1.0)
NoMinSimilarity == [set |-> FALSE, num |-> 0, den2 |-> 1]
MinSimilarities ==
    { NoMinSimilarity,
      [set |-> TRUE, num |-> 9, den2 |-> 100] }

JsonDumpsEmpty(x) == [json |-> << >>]

\* json.dumps / json.loads of the metadata and embedding columns
JsonDumps(x) == [json |-> x]
JsonLoads(s) == s.json

OpBase ==
    [kind |-> "none", status |-> "none", http |-> 0, table |-> << >>,
     touched |-> {}, connects |-> 0, queries |-> 0, embed_calls |-> 0,
     provider_calls |-> 0,
     id |-> 0, results |-> << >>, ranked |-> << >>, k |-> 0,
     min |-> NoMinSimilarity, text |-> << >>, qv |-> << >>, keep |-> 0,
     before |-> << >>, name |-> << >>, provider_failed |-> FALSE,
     dim_mismatch |-> FALSE]

\* inserts are counted and capped to keep the model finite
MayInsert == next_id <= MaxInserts

(***************************************************************************)
(* utils/offline_store.py                                                  *)
(***************************************************************************)
\* created_at counted down instead of read from the clock
NewLocalRowCountedDown(content, embedding) ==
    [id |-> next_id, content |-> content, metadata |-> JsonDumps("{}"),
     embedding |-> JsonDumps(embedding), created_at |-> MaxInserts - next_id,
     seq |-> next_id]

\* _normalize_payload and the INSERT: id defaults to a fresh uuid4, metadata
\* and embedding are stored as JSON text, created_at defaults to
\* CURRENT_TIMESTAMP
NewLocalRow(content, embedding) ==
    [id |-> next_id, content |-> content, metadata |-> JsonDumps("{}"),
     embedding |-> JsonDumps(embedding), created_at |-> now, seq |-> next_id]

\* _row_to_dict: the metadata and embedding columns are parsed back
RowToDict(row) ==
    [id |-> row.id, content |-> row.content, metadata |-> JsonLoads(row.metadata),
     embedding |-> JsonLoads(row.embedding), created_at |-> row.created_at,
     seq |-> row.seq]

Injections(n) == {p \in [1..n -> 1..n] : \A i, j \in 1..n : i # j => p[i] # p[j]}

RowidOrder(rows) == { [i \in 1..Len(rows) |-> i] }

\* ORDER BY datetime(created_at) DESC: rows with equal created_at come back
\* in an order SQL leaves open, so every order of the rows that is
\* non-increasing in created_at is a possible answer (p[i] is the rowid
\* position of the i-th row returned)
CreatedAtDescOrders(rows) ==
    { q \in Injections(Len(rows)) :
        \A i, j \in 1..Len(rows) :
            i < j => rows[q[i]].created_at >= rows[q[j]].created_at }

Permuted(list, p) == [i \in 1..Len(list) |-> list[p[i]]]

\* fetch_records(table) without a limit: the possible answers
FetchOrders(rows) ==
    { Permuted([i \in 1..Len(rows) |-> RowToDict(rows[i])], p) :
        p \in CreatedAtDescOrders(rows) }

\* list.sort(key=score, reverse=True) is stable: an element goes behind
\* every element whose score is not smaller
RECURSIVE InsertByScore(_, _)
InsertByScore(sorted, x) ==
    IF sorted = << >> THEN <<x>>
    ELSE IF ScoreLess(Head(sorted).score, x.score) THEN <<x>> \o sorted
    ELSE <<Head(sorted)>> \o InsertByScore(Tail(sorted), x)

RECURSIVE SortByScoreDesc(_, _)
SortByScoreDesc(done, rest) ==
    IF rest = << >> THEN done
    ELSE SortByScoreDesc(InsertByScore(done, Head(rest)), Tail(rest))

Unsorted(scored) == scored

\* scored.sort(key=lambda item: item[0], reverse=True)
SortScored(scored) == SortByScoreDesc(<< >>, scored)

TakeAll(list, k) == list

\* scored[:top_k] for top_k >= 0
Take(list, k) == SubSeq(list, 1, IF k < Len(list) THEN k ELSE Len(list))

ScoredZeroOnMismatch(records, query_vector) ==
    [i \in 1..Len(records) |->
        LET c == CosineSimilarity(query_vector, records[i].embedding) IN
        [id |-> records[i].id, seq |-> records[i].seq,
         created_at |-> records[i].created_at, err |-> FALSE, score |-> c.score]]

\* score = cosine_similarity(query_vector, embedding) of every record
Scored(records, query_vector) ==
    [i \in 1..Len(records) |->
        LET c == CosineSimilarity(query_vector, records[i].embedding) IN
        [id |-> records[i].id, seq |-> records[i].seq,
         created_at |-> records[i].created_at, err |-> c.err, score |-> c.score]]

TopKFromEnd(scored, top_k) ==
    IF \E i \in 1..Len(scored) : scored[i].err
      THEN [err |-> TRUE, ranked |-> << >>, results |-> << >>]
      ELSE LET ranked == SortScored(scored)
               n == Len(ranked)
           IN [err |-> FALSE, ranked |-> ranked,
               results |-> SubSeq(ranked, IF top_k < n THEN n - top_k + 1 ELSE 1, n)]

\* top_k_embeddings from the scoring loop on: scored is the list of
\* (score, record) in the order the records were fetched; err stands for
\* the ValueError of cosine_similarity
TopKOfScored(scored, top_k) ==
    IF \E i \in 1..Len(scored) : scored[i].err
      THEN [err |-> TRUE, ranked |-> << >>, results |-> << >>]
      ELSE LET ranked == SortScored(scored)
           IN [err |-> FALSE, ranked |-> ranked, results |-> Take(ranked, top_k)]

\* to_delete = records[keep:] unless len(records) <= keep
ToDelete(records, keep) ==
    IF Len(records) <= keep THEN << >> ELSE SubSeq(records, keep + 1, Len(records))

\* prune_embeddings(table, keep)
PruneEmbeddings(table, keep) ==
    LET norm == NormalizeTableName(table) IN
    IF ~norm.ok
      THEN /\ op' = [OpBase EXCEPT !.kind = "prune", !.status = "ValueError",
                                   !.table = table, !.name = table]
           /\ UNCHANGED <<offline_mode, now, local, remote, next_id>>
      ELSE \E records \in FetchOrders(local[norm.name]) :
             LET gone == {ToDelete(records, keep)[i].id : i \in 1..Len(ToDelete(records, keep))}
             IN /\ local' = [local EXCEPT ![norm.name] =
                                SelectSeq(@, LAMBDA row : row.id \notin gone)]
                /\ op' = [OpBase EXCEPT !.kind = "prune", !.status = "ok",
                                        !.table = norm.name, !.keep = keep,
                                        !.name = table, !.touched = {"local"},
                                        !.before = local[norm.name]]
                /\ UNCHANGED <<offline_mode, now, remote, next_id>>

(***************************************************************************)
(* utils/pgvector_client.py: PGVectorClient.  The database is outside the  *)
(* program: opening the connection or executing the statement may fail on  *)
(* any call, and a cosine distance between vectors of different            *)
(* dimensions is an error of the statement.                                *)
(***************************************************************************)
RemoteFailures == {"none", "connect", "execute"}

RowsOf(parts) == SelectSeq(remote, LAMBDA row : row.table = parts)

NewRemoteRow(parts, content, embedding) ==
    [table |-> parts, id |-> next_id, content |-> content, embedding |-> embedding,
     created_at |-> now, seq |-> next_id]

\* PGVectorClient.insert_embedding up to its return value; row is the
\* inserted row when status is "ok"
PGInsertOutcome(table, content, embedding, fail) ==
    LET idp == IdentifierParts(table)
        none == NewRemoteRow(<< >>, << >>, << >>)
    IN IF ~idp.ok
         THEN [status |-> "ValueError", connects |-> 0, queries |-> 0, row |-> none]
       ELSE IF fail = "connect"
         THEN [status |-> "RemoteError", connects |-> 1, queries |-> 0, row |-> none]
       ELSE IF fail = "execute"
         THEN [status |-> "RemoteError", connects |-> 1, queries |-> 1, row |-> none]
       ELSE [status |-> "ok", connects |-> 1, queries |-> 1,
             row |-> NewRemoteRow(idp.parts, content, embedding)]

RemoteRankingsUnordered(scored) ==
    { [i \in 1..Len(scored) |-> scored[p[i]]] : p \in Injections(Len(scored)) }

\* ORDER BY embedding <=> query: ascending cosine distance, that is
\* descending similarity; rows at the same distance come in any order
RemoteRankings(scored) ==
    { [i \in 1..Len(scored) |-> scored[p[i]]] :
        p \in { q \in Injections(Len(scored)) :
                  \A i, j \in 1..Len(scored) :
                      i < j => ~ScoreLess(scored[q[i]].score, scored[q[j]].score) } }

\* LIMIT %s
Limit(ranking, top_k) == Take(ranking, top_k)

\* PGVectorClient.search_embeddings: the possible outcomes
PGSearchOutcomes(table, query_vector, top_k, fail) ==
    LET idp == IdentifierParts(table)
        rows == RowsOf(idp.parts)
        mismatch == \E i \in 1..Len(rows) : Len(rows[i].embedding) # Len(query_vector)
        scored == Scored(rows, query_vector)
    IN IF ~idp.ok
         THEN {[status |-> "ValueError", connects |-> 0, queries |-> 0,
                ranked |-> << >>, results |-> << >>, mismatch |-> FALSE]}
       ELSE IF fail = "connect"
         THEN {[status |-> "RemoteError", connects |-> 1, queries |-> 0,
                ranked |-> << >>, results |-> << >>, mismatch |-> FALSE]}
       ELSE IF fail = "execute" \/ mismatch
         THEN {[status |-> "RemoteError", connects |-> 1, queries |-> 1,
                ranked |-> << >>, results |-> << >>,
                mismatch |-> fail # "execute"]}
       ELSE {[status |-> "ok", connects |-> 1, queries |-> 1,
              ranked |-> r, results |-> Limit(r, top_k), mismatch |-> FALSE] :
                r \in RemoteRankings(scored)}

\* PGVectorClient.insert_embedding called directly
InsertEmbedding(table, content, embedding) ==
    \E fail \in RemoteFailures :
        LET out == PGInsertOutcome(table, content, embedding, fail) IN
        /\ out.status = "ok" => MayInsert
        /\ remote' = IF out.status = "ok" THEN Append(remote, out.row) ELSE remote
        /\ next_id' = IF out.status = "ok" THEN next_id + 1 ELSE next_id
        /\ op' = [OpBase EXCEPT !.kind = "pg_insert", !.status = out.status,
                                !.table = table, !.connects = out.connects,
                                !.queries = out.queries,
                                !.touched = IF out.connects > 0 THEN {"remote"} ELSE {},
                                !.id = IF out.status = "ok" THEN out.row.id ELSE 0]
        /\ UNCHANGED <<offline_mode, now, local>>

\* PGVectorClient.search_embeddings called directly
PGSearchEmbeddings(table, query_vector, top_k) ==
    \E fail \in RemoteFailures :
        \E out \in PGSearchOutcomes(table, query_vector, top_k, fail) :
            /\ op' = [OpBase EXCEPT !.kind = "pg_search", !.status = out.status,
                                    !.table = table, !.connects = out.connects,
                                    !.queries = out.queries,
                                    !.touched = IF out.connects > 0 THEN {"remote"} ELSE {},
                                    !.k = top_k, !.qv = query_vector,
                                    !.ranked = out.ranked, !.results = out.results,
                                    !.dim_mismatch = out.mismatch]
            /\ UNCHANGED <<offline_mode, now, local, remote, next_id>>

(***************************************************************************)
(* utils/pgvector_client.py: store_embedding and search_embeddings, the    *)
(* dispatch on settings.offline_mode.  In live mode get_pgvector_client()  *)
(* raises RuntimeError, before any connection, when no database URL is     *)
(* configured (failure "config").                                          *)
(***************************************************************************)
LiveFailures == RemoteFailures \cup {"config"}

UseRemoteStoreAlways(flag) == FALSE

\* if settings.offline_mode: return offline_store....
UseOfflineStore(flag) == flag

FallsBackOnRemoteError(status) == status = "RemoteError"

\* client.insert_embedding / client.search_embeddings are called outside any
\* try block: an error of the remote store leaves the function as it is
FallsBackToLocal(status) == FALSE

\* offline_store.top_k_embeddings(table, query_vector, top_k): the possible
\* outcomes
LocalSearchOutcomes(table, query_vector, top_k) ==
    LET norm == NormalizeTableName(table) IN
    IF ~norm.ok
      THEN {[status |-> "ValueError", touched |-> {}, connects |-> 0, queries |-> 0,
             ranked |-> << >>, results |-> << >>, mismatch |-> FALSE]}
      ELSE LET rows == local[norm.name]
               scored == Scored([i \in 1..Len(rows) |-> RowToDict(rows[i])], query_vector)
           IN { LET top == TopKOfScored(Permuted(scored, p), top_k) IN
                [status |-> IF top.err THEN "ValueError" ELSE "ok",
                 touched |-> {"local"}, connects |-> 0, queries |-> 0,
                 ranked |-> top.ranked, results |-> top.results,
                 mismatch |-> top.err] :
                    p \in CreatedAtDescOrders(rows) }

\* client.search_embeddings(table, query_vector, top_k) behind
\* get_pgvector_client(): the possible outcomes
LiveSearchOutcomes(table, query_vector, top_k) ==
    {[status |-> "RuntimeError", touched |-> {}, connects |-> 0, queries |-> 0,
      ranked |-> << >>, results |-> << >>, mismatch |-> FALSE]}
    \cup
    UNION { { [status |-> out.status,
               touched |-> IF out.connects > 0 THEN {"remote"} ELSE {},
               connects |-> out.connects, queries |-> out.queries,
               ranked |-> out.ranked, results |-> out.results,
               mismatch |-> out.mismatch] :
                 out \in PGSearchOutcomes(table, query_vector, top_k, fail) } :
            fail \in RemoteFailures }

\* search_embeddings(table, query_vector, top_k): the possible outcomes
SearchOutcomes(table, query_vector, top_k) ==
    IF UseOfflineStore(offline_mode)
      THEN LocalSearchOutcomes(table, query_vector, top_k)
      ELSE UNION { IF FallsBackToLocal(out.status)
                     THEN LocalSearchOutcomes(table, query_vector, top_k)
                     ELSE {out} :
                   out \in LiveSearchOutcomes(table, query_vector, top_k) }

\* offline_store.store_embedding(table, content, embedding, metadata)
LocalStoreEmbedding(table, content, embedding) ==
    LET norm == NormalizeTableName(table) IN
    IF ~norm.ok
      THEN /\ op' = [OpBase EXCEPT !.kind = "store", !.status = "ValueError",
                                   !.table = table, !.name = table]
           /\ UNCHANGED <<offline_mode, now, local, remote, next_id>>
      ELSE /\ MayInsert
           /\ local' = [local EXCEPT ![norm.name] =
                            Append(@, NewLocalRow(content, embedding))]
           /\ next_id' = next_id + 1
           /\ op' = [OpBase EXCEPT !.kind = "store", !.status = "ok",
                                   !.table = table, !.name = table,
                                   !.touched = {"local"}, !.id = next_id,
                                   !.text = content, !.qv = embedding]
           /\ UNCHANGED <<offline_mode, now, remote>>

\* fetch_records(table) called without limit
FetchRecords(table) ==
    LET norm == NormalizeTableName(table)
        base == [OpBase EXCEPT !.kind = "fetch", !.table = table, !.name = table]
    IN /\ UNCHANGED <<offline_mode, now, local, remote, next_id>>
       /\ IF ~norm.ok
            THEN op' = [base EXCEPT !.status = "ValueError"]
            ELSE \E records \in FetchOrders(local[norm.name]) :
                   op' = [base EXCEPT !.status = "ok", !.touched = {"local"},
                                      !.results = records]

\* top_k_embeddings(table, query_vector, top_k) called on the local store
TopKEmbeddings(table, query_vector, top_k) ==
    \E out \in LocalSearchOutcomes(table, query_vector, top_k) :
        /\ op' = [OpBase EXCEPT !.kind = "top_k", !.status = out.status,
                                !.table = table, !.name = table,
                                !.touched = out.touched, !.k = top_k,
                                !.qv = query_vector, !.ranked = out.ranked,
                                !.results = out.results,
                                !.dim_mismatch = out.mismatch]
        /\ UNCHANGED <<offline_mode, now, local, remote, next_id>>

\* get_pgvector_client().insert_embedding(table, content, embedding, metadata)
LiveStoreEmbedding(table, content, embedding) ==
    \E fail \in LiveFailures :
        LET out == IF fail = "config"
                     THEN [status |-> "RuntimeError", connects |-> 0, queries |-> 0,
                           row |-> NewRemoteRow(<< >>, << >>, << >>)]
                     ELSE PGInsertOutcome(table, content, embedding, fail)
        IN IF FallsBackToLocal(out.status)
             THEN LocalStoreEmbedding(table, content, embedding)
             ELSE /\ out.status = "ok" => MayInsert
                  /\ remote' = IF out.status = "ok" THEN Append(remote, out.row) ELSE remote
                  /\ next_id' = IF out.status = "ok" THEN next_id + 1 ELSE next_id
                  /\ op' = [OpBase EXCEPT !.kind = "store", !.status = out.status,
                                          !.table = table, !.connects = out.connects,
                                          !.queries = out.queries,
                                          !.touched = IF out.connects > 0 THEN {"remote"} ELSE {},
                                          !.id = IF out.status = "ok" THEN out.row.id ELSE 0]
                  /\ UNCHANGED <<offline_mode, now, local>>

\* store_embedding(table, content, embedding, metadata)
StoreEmbedding(table, content, embedding) ==
    IF UseOfflineStore(offline_mode)
      THEN LocalStoreEmbedding(table, content, embedding)
      ELSE LiveStoreEmbedding(table, content, embedding)

\* search_embeddings(table, query_vector, top_k)
SearchEmbeddings(table, query_vector, top_k) ==
    \E out \in SearchOutcomes(table, query_vector, top_k) :
        /\ op' = IF out.status # "ok"
                   THEN [OpBase EXCEPT !.kind = "search", !.status = out.status,
                                       !.table = table, !.touched = out.touched,
                                       !.connects = out.connects, !.queries = out.queries,
                                       !.dim_mismatch = out.mismatch]
                   ELSE [OpBase EXCEPT !.kind = "search", !.status = "ok",
                                       !.table = table, !.touched = out.touched,
                                       !.connects = out.connects, !.queries = out.queries,
                                       !.k = top_k, !.qv = query_vector,
                                       !.ranked = out.ranked, !.results = out.results]
        /\ UNCHANGED <<offline_mode, now, local, remote, next_id>>

(***************************************************************************)
(* utils/openai_client.py: generate_embedding.  In live mode the provider  *)
(* is outside the program: the call fails (no API key, quota, network) or  *)
(* answers with some vector.                                               *)
(***************************************************************************)
\* the digest offline, client.embeddings.create(...) live: failed marks an
\* error raised by the provider call
ProviderOutcomes(text) ==
    IF offline_mode
      THEN {[ok |-> TRUE, vector |-> OfflineEmbedding(text), provider_calls |-> 0,
             failed |-> FALSE]}
      ELSE {[ok |-> FALSE, vector |-> << >>, provider_calls |-> 1, failed |-> TRUE]}
           \cup {[ok |-> TRUE, vector |-> v, provider_calls |-> 1, failed |-> FALSE] :
                    v \in ProviderVectors}

ZeroVectorOnFailure(emb) ==
    IF emb.failed THEN [emb EXCEPT !.ok = TRUE, !.vector = <<0, 0>>] ELSE emb

\* generate_embedding has no except clause: what the provider call raised is
\* what generate_embedding raises
AfterProviderCall(emb) == emb

\* generate_embedding(text): the possible outcomes
EmbeddingOutcomes(text) == { AfterProviderCall(emb) : emb \in ProviderOutcomes(text) }

(***************************************************************************)
(* routes/memory.py: POST /memory/retrieve                                 *)
(***************************************************************************)
AcceptsAnyLength(text) == TRUE

\* Field(..., min_length=1) of MemoryRetrieveRequest.query and
\* EmbeddingRequest.text: a shorter string is answered with 422 before the
\* handler runs
PassesMinLength(text) == Len(text) >= 1

\* settings.memory_table or settings.supabase_table_memory or "ti_memory"
MemoryTable == TiMemory

\* the loop over results: an item is skipped when min_similarity is set and
\* its similarity is below it
FilterBySimilarity(results, min) ==
    SelectSeq(results, LAMBDA item : ~(min.set /\ ScoreLess(item.score, min)))

\* retrieve_memories(payload)
RetrieveMemories(query, top_k, min) ==
    LET base == [OpBase EXCEPT !.kind = "retrieve", !.text = query,
                               !.table = MemoryTable]
    IN
    /\ UNCHANGED <<offline_mode, now, local, remote, next_id>>
    /\ IF ~PassesMinLength(query)
         THEN op' = [base EXCEPT !.status = "InvalidInput", !.http = 422]
       ELSE IF Strip(query) = << >>
         THEN op' = [base EXCEPT !.status = "InvalidInput", !.http = 400]
       ELSE \E emb \in EmbeddingOutcomes(query) :
              IF ~emb.ok
                THEN op' = [base EXCEPT !.status = "ProviderError", !.http = 502,
                                        !.embed_calls = 1, !.provider_calls = emb.provider_calls,
                                        !.provider_failed = emb.failed]
                ELSE \E out \in SearchOutcomes(MemoryTable, emb.vector, top_k) :
                       IF out.status # "ok"
                         THEN op' = [base EXCEPT
                                       !.status = out.status,
                                       !.http = IF out.status = "ValueError" THEN 400 ELSE 502,
                                       !.embed_calls = 1, !.provider_calls = emb.provider_calls,
                                        !.provider_failed = emb.failed,
                                       !.touched = out.touched,
                                       !.connects = out.connects,
                                       !.queries = out.queries,
                                       !.dim_mismatch = out.mismatch]
                         ELSE op' = [base EXCEPT
                                       !.status = "ok", !.http = 200,
                                       !.embed_calls = 1, !.provider_calls = emb.provider_calls,
                                        !.provider_failed = emb.failed,
                                       !.k = top_k, !.min = min, !.qv = emb.vector,
                                       !.touched = out.touched,
                                       !.connects = out.connects,
                                       !.queries = out.queries,
                                       !.ranked = out.ranked,
                                       !.results = FilterBySimilarity(out.results, min)]

(***************************************************************************)
(* routes/embed.py: POST /embed/.  After the embedding the handler calls   *)
(* supabase_client.insert_record(table, {...}) with two positional         *)
(* arguments; the function takes (project, table, record), so the call     *)
(* raises TypeError before its body runs, the handler has no except        *)
(* clause around it, and the statements after it (get_pgvector_client()    *)
(* and insert_embedding) are never reached.                                *)
(***************************************************************************)
\* insert_record(project, table, record) called with nargs positional arguments
InsertRecordBinds(nargs) == nargs = 3

\* create_embedding(payload)
CreateEmbedding(text) ==
    LET base == [OpBase EXCEPT !.kind = "create_embedding", !.text = text,
                               !.table = EmbeddingsTable]
    IN
    /\ UNCHANGED <<offline_mode, now, local, remote, next_id>>
    /\ IF ~PassesMinLength(text)
         THEN op' = [base EXCEPT !.status = "InvalidInput", !.http = 422]
       ELSE \E emb \in EmbeddingOutcomes(text) :
              IF ~emb.ok
                THEN op' = [base EXCEPT !.status = "ProviderError", !.http = 502,
                                        !.embed_calls = 1, !.provider_calls = emb.provider_calls,
                                        !.provider_failed = emb.failed]
                ELSE /\ ~InsertRecordBinds(2)
                     /\ op' = [base EXCEPT !.status = "TypeError", !.http = 500,
                                           !.embed_calls = 1, !.provider_calls = emb.provider_calls,
                                        !.provider_failed = emb.failed]

(***************************************************************************)
(* The memory subsystem: a process configured offline or live, with empty  *)
(* stores, serving calls in any order.                                     *)
(***************************************************************************)
BadTable == <<"n", "o", ";">>
GatewayTables == {TiMemory, BadTable}
TopKs == 1..MaxTopK
Keeps == 0..MaxInserts

MemInit ==
    /\ offline_mode \in BOOLEAN
    /\ now = 0
    /\ local = [t \in SupportedTables |-> << >>]
    /\ remote = << >>
    /\ next_id = 1
    /\ op = OpBase

MemIdle ==
    /\ offline_mode = FALSE /\ now = 0 /\ local = [t \in SupportedTables |-> << >>]
    /\ remote = << >> /\ next_id = 1 /\ op = OpBase

vars == <<retryVars, memVars, ident_name, auxVars>>

\* the clock advances
Tick ==
    /\ now < MaxTime
    /\ now' = now + 1
    /\ UNCHANGED <<offline_mode, local, remote, next_id, op, retryVars, ident_name, auxVars>>

DoStoreEmbedding ==
    /\ \E table \in GatewayTables, x \in StoreInputs(offline_mode) :
          StoreEmbedding(table, x.content, x.embedding)
    /\ UNCHANGED <<retryVars, ident_name, auxVars>>

DoSearchEmbeddings ==
    /\ \E table \in GatewayTables, qv \in QueryVectors, k \in TopKs :
          SearchEmbeddings(table, qv, k)
    /\ UNCHANGED <<retryVars, ident_name, auxVars>>

DoRetrieveMemories ==
    /\ \E query \in Queries, k \in TopKs, min \in MinSimilarities :
          RetrieveMemories(query, k, min)
    /\ UNCHANGED <<retryVars, ident_name, auxVars>>

DoCreateEmbedding ==
    /\ \E text \in Texts : CreateEmbedding(text)
    /\ UNCHANGED <<retryVars, ident_name, auxVars>>

DoPruneEmbeddings ==
    /\ \E table \in GatewayTables, keep \in Keeps : PruneEmbeddings(table, keep)
    /\ UNCHANGED <<retryVars, ident_name, auxVars>>

\* the memory subsystem
Init == MemInit /\ RetryIdle /\ ident_name = << >> /\ AuxIdle
Next ==
    \/ Tick
    \/ DoStoreEmbedding
    \/ DoSearchEmbeddings
    \/ DoRetrieveMemories
    \/ DoCreateEmbedding
    \/ DoPruneEmbeddings
Spec == Init /\ [][Next]_vars

\* the retry decorator on its own
InitRetry == RetryInit /\ MemIdle /\ ident_name = << >> /\ AuxIdle
NextRetry ==
    \/ RetryCallReturns
    \/ RetryCallRaises
    \/ RetrySleep
    \/ RetryExit
SpecRetry == InitRetry /\ [][NextRetry]_vars

(***************************************************************************)
(* PGVectorClient called with an arbitrary table name.                     *)
(***************************************************************************)
IdentChars == {"a", "1", ".", " ", ";"}

RECURSIVE NamesOfLength(_)
NamesOfLength(n) ==
    IF n = 0 THEN { << >> }
    ELSE { Append(w, c) : w \in NamesOfLength(n - 1), c \in IdentChars }

IdentNames == UNION { NamesOfLength(n) : n \in 0..MaxNameLen }

IdentInsert ==
    /\ InsertEmbedding(ident_name, <<"a">>, <<1, 0>>)
    /\ UNCHANGED <<retryVars, ident_name, auxVars>>

IdentSearch ==
    /\ \E k \in TopKs : PGSearchEmbeddings(ident_name, <<1, 1>>, k)
    /\ UNCHANGED <<retryVars, ident_name, auxVars>>

InitIdent == MemIdle /\ RetryIdle /\ ident_name \in IdentNames /\ AuxIdle
NextIdent ==
    \/ IdentInsert
    \/ IdentSearch
SpecIdent == InitIdent /\ [][NextIdent]_vars

(***************************************************************************)
(* The local store called directly, with table names of every shape.       *)
(***************************************************************************)
LocalNames ==
    { TiMemory,
      <<"x", ".", " ">> \o TiMemory \o <<" ">>,
      TiMemory \o <<".", "x">>,
      <<"x">> \o TiMemory,
      << >> }

LocalInsert ==
    /\ \E table \in LocalNames, x \in StoreInputs(TRUE) :
          LocalStoreEmbedding(table, x.content, x.embedding)
    /\ UNCHANGED <<retryVars, ident_name, auxVars>>

LocalFetch ==
    /\ \E table \in LocalNames : FetchRecords(table)
    /\ UNCHANGED <<retryVars, ident_name, auxVars>>

LocalSearch ==
    /\ \E table \in LocalNames, k \in TopKs :
          TopKEmbeddings(table, OfflineEmbedding(<<"b">>), k)
    /\ UNCHANGED <<retryVars, ident_name, auxVars>>

LocalPrune ==
    /\ \E table \in LocalNames, keep \in Keeps : PruneEmbeddings(table, keep)
    /\ UNCHANGED <<retryVars, ident_name, auxVars>>

InitLocal ==
    /\ offline_mode = TRUE /\ now = 0 /\ local = [t \in SupportedTables |-> << >>]
    /\ remote = << >> /\ next_id = 1 /\ op = OpBase
    /\ RetryIdle /\ ident_name = << >> /\ AuxIdle
NextLocal ==
    \/ Tick
    \/ LocalInsert
    \/ LocalFetch
    \/ LocalSearch
    \/ LocalPrune
SpecLocal == InitLocal /\ [][NextLocal]_vars

(***************************************************************************)
(* cosine_similarity applied to vectors of every shape up to MaxDim.       *)
(***************************************************************************)
Components == {0 - 1, 0, 1, 2}

RECURSIVE VectorsOfLength(_)
VectorsOfLength(n) ==
    IF n = 0 THEN { << >> }
    ELSE { Append(v, c) : v \in VectorsOfLength(n - 1), c \in Components }

Vectors == UNION { VectorsOfLength(n) : n \in 0..MaxDim }

\* score = cosine_similarity(a, b)
CallCosineSimilarity ==
    /\ ~cos_out.called
    /\ LET c == CosineSimilarity(cos_a, cos_b) IN
       cos_out' = [called |-> TRUE, raised |-> c.err,
                   num |-> c.score.num, den2 |-> c.score.den2]
    /\ UNCHANGED <<cos_a, cos_b, retryVars, memVars, ident_name, embVars, cliVars, dbVars, taskVars, loopVars, supVars, histVars>>

\* the caller moves on to other vectors of the same shapes
NextVectors ==
    /\ cos_out.called
    /\ cos_a' \in VectorsOfLength(Len(cos_a))
    /\ cos_b' \in VectorsOfLength(Len(cos_b))
    /\ cos_out' = NoCosine
    /\ UNCHANGED <<retryVars, memVars, ident_name, embVars, cliVars, dbVars, taskVars, loopVars, supVars, histVars>>

InitCosine ==
    /\ cos_a \in Vectors /\ cos_b \in Vectors /\ cos_out = NoCosine
    /\ MemIdle /\ RetryIdle /\ ident_name = << >> /\ EmbIdle /\ CliIdle /\ DbIdle /\ TaskIdle /\ LoopIdle /\ SupIdle /\ HistIdle
NextCosine ==
    \/ CallCosineSimilarity
    \/ NextVectors
SpecCosine == InitCosine /\ [][NextCosine]_vars

(***************************************************************************)
(* generate_embedding called on its own, between other calls.              *)
(***************************************************************************)
\* generate_embedding(text)
GenerateEmbedding(text) ==
    \E emb \in EmbeddingOutcomes(text) :
        /\ embed_log' = [embed_log EXCEPT ![text] =
                            [vectors |-> IF emb.ok THEN @.vectors \cup {emb.vector}
                                         ELSE @.vectors,
                             calls |-> IF @.calls = 0 THEN 1 ELSE 2]]
        /\ op' = [OpBase EXCEPT !.kind = "embed", !.text = text,
                                !.status = IF emb.ok THEN "ok" ELSE "ProviderError",
                                !.embed_calls = 1, !.provider_calls = emb.provider_calls,
                                        !.provider_failed = emb.failed,
                                !.qv = emb.vector]
        /\ UNCHANGED <<offline_mode, now, local, remote, next_id>>

DoGenerateEmbedding ==
    /\ \E text \in Texts : GenerateEmbedding(text)
    /\ UNCHANGED <<retryVars, ident_name, cosVars, cliVars, dbVars, taskVars, loopVars, supVars, histVars>>

InitEmbed ==
    /\ offline_mode = TRUE /\ now = 0 /\ local = [t \in SupportedTables |-> << >>]
    /\ remote = << >> /\ next_id = 1 /\ op = OpBase
    /\ RetryIdle /\ ident_name = << >> /\ AuxIdle
NextEmbed ==
    \/ Tick
    \/ DoStoreEmbedding
    \/ DoGenerateEmbedding
SpecEmbed == InitEmbed /\ [][NextEmbed]_vars

(***************************************************************************)
(* The cached client getters called by request threads.  Handlers run     *)
(* generate_embedding, store_embedding and search_embeddings through       *)
(* run_in_threadpool, so several threads may call a getter at once.  A     *)
(* function under functools.lru_cache looks the key up, on a miss calls    *)
(* the function without holding a lock, stores the result unless the key   *)
(* has appeared meanwhile, and returns the result of its own call.         *)
(* get_supabase_client tests the global, constructs, assigns the global    *)
(* and returns the global.  Client objects are numbered as constructed.    *)
(***************************************************************************)
OtherVarsOfClients == <<retryVars, memVars, ident_name, cosVars, embVars, dbVars, taskVars, loopVars, supVars, histVars>>

\* a thread calls one of the getters: the cache lookup / the test of the global
GetterLookup(t, g) ==
    /\ c_pc[t] = "idle" /\ c_handle[t] = 0
    /\ c_getter' = [c_getter EXCEPT ![t] = g]
    /\ IF c_cache[g] # 0
         THEN /\ c_handle' = [c_handle EXCEPT ![t] = c_cache[g]]
              /\ c_pc' = [c_pc EXCEPT ![t] = "done"]
         ELSE /\ c_pc' = [c_pc EXCEPT ![t] = "miss"]
              /\ UNCHANGED c_handle
    /\ UNCHANGED <<c_cache, c_obj, c_built, OtherVarsOfClients>>

\* PGVectorClient(settings.database_url) / OpenAI(api_key=...) / create_client(url, key)
GetterConstruct(t) ==
    /\ c_pc[t] = "miss"
    /\ c_built' = [c_built EXCEPT ![c_getter[t]] = @ + 1]
    /\ c_obj' = [c_obj EXCEPT ![t] = c_built[c_getter[t]] + 1]
    /\ c_pc' = [c_pc EXCEPT ![t] = "built"]
    /\ UNCHANGED <<c_cache, c_getter, c_handle, OtherVarsOfClients>>

\* lru_cache: the result is stored unless the key is already there, and the
\* wrapper returns the result of this call
LruStoreAndReturn(t) ==
    /\ c_pc[t] = "built" /\ c_getter[t] \in {"pgvector", "openai"}
    /\ c_cache' = IF c_cache[c_getter[t]] = 0
                    THEN [c_cache EXCEPT ![c_getter[t]] = c_obj[t]]
                    ELSE c_cache
    /\ c_handle' = [c_handle EXCEPT ![t] = c_obj[t]]
    /\ c_pc' = [c_pc EXCEPT ![t] = "done"]
    /\ UNCHANGED <<c_getter, c_obj, c_built, OtherVarsOfClients>>

\* _den_client = create_client(url, key)
GlobalAssign(t) ==
    /\ c_pc[t] = "built" /\ c_getter[t] = "supabase"
    /\ c_cache' = [c_cache EXCEPT !["supabase"] = c_obj[t]]
    /\ c_pc' = [c_pc EXCEPT ![t] = "assigned"]
    /\ UNCHANGED <<c_getter, c_obj, c_handle, c_built, OtherVarsOfClients>>

\* return _den_client
GlobalReturn(t) ==
    /\ c_pc[t] = "assigned"
    /\ c_handle' = [c_handle EXCEPT ![t] = c_cache["supabase"]]
    /\ c_pc' = [c_pc EXCEPT ![t] = "done"]
    /\ UNCHANGED <<c_cache, c_getter, c_obj, c_built, OtherVarsOfClients>>

ThreadLooksUp == \E t \in Threads, g \in Getters : GetterLookup(t, g)
ThreadConstructs == \E t \in Threads : GetterConstruct(t)
ThreadStoresAndReturns == \E t \in Threads : LruStoreAndReturn(t)
ThreadAssignsGlobal == \E t \in Threads : GlobalAssign(t)
ThreadReturnsGlobal == \E t \in Threads : GlobalReturn(t)

InitClients ==
    /\ CliIdle /\ CosIdle /\ EmbIdle /\ DbIdle /\ TaskIdle /\ LoopIdle /\ SupIdle /\ HistIdle
    /\ MemIdle /\ RetryIdle /\ ident_name = << >>
NextClients ==
    \/ ThreadLooksUp
    \/ ThreadConstructs
    \/ ThreadStoresAndReturns
    \/ ThreadAssignsGlobal
    \/ ThreadReturnsGlobal
SpecClients == InitClients /\ [][NextClients]_vars

(***************************************************************************)
(* The SQLite file under concurrent calls.  Every call of insert_record,   *)
(* fetch_records and prune_embeddings opens its own connection             *)
(* (_ensure_database), and the handlers run them in thread-pool threads.   *)
(* The program takes no lock of its own; what is modelled here is what     *)
(* SQLite does for each connection: the first INSERT or DELETE of a        *)
(* transaction takes the write lock of the file, or fails with             *)
(* "database is locked" when another connection holds it; the connection   *)
(* changes its own copy of the pages it read; commit writes the changed    *)
(* pages back and releases the lock; a SELECT reads committed pages only.  *)
(***************************************************************************)
OtherVarsOfDb == <<retryVars, memVars, ident_name, cosVars, embVars, cliVars, taskVars, loopVars, supVars, histVars>>

LockIgnored(holder) == TRUE

\* the write lock of the file is free
MayWrite(holder) == holder = "none"

FileIds(rows) == {r.id : r \in rows}

\* conn.execute("INSERT INTO ... VALUES (...)", item) with a fresh id
InsertExecute(t) ==
    /\ q_pc[t] = "idle" /\ q_next <= MaxInserts
    /\ MayWrite(q_lock)
    /\ q_lock' = t
    /\ q_snap' = [q_snap EXCEPT ![t] = q_file]
    /\ q_row' = [q_row EXCEPT ![t] = [id |-> q_next, content |-> <<"a">>,
                                       embedding |-> JsonDumps(OfflineEmbedding(<<"a">>)),
                                       created_at |-> now]]
    /\ q_next' = q_next + 1
    /\ q_pc' = [q_pc EXCEPT ![t] = "inserting"]
    /\ q_ret' = [q_ret EXCEPT ![t] = 0]
    /\ UNCHANGED <<q_file, q_del, q_prune, q_seen, q_committed, q_deleted, OtherVarsOfDb>>

\* the INSERT or DELETE finds the file locked: sqlite3.OperationalError
WriteBusy(t) ==
    /\ q_pc[t] \in {"idle", "pruning"}
    /\ ~MayWrite(q_lock)
    /\ q_pc' = [q_pc EXCEPT ![t] = "idle"]
    /\ q_ret' = [q_ret EXCEPT ![t] = 0 - 1]
    /\ q_del' = [q_del EXCEPT ![t] = NoPrune]
    /\ UNCHANGED <<q_file, q_lock, q_snap, q_row, q_prune, q_seen, q_committed, q_deleted,
                   q_next, OtherVarsOfDb>>

\* conn.commit() of insert_record, and return _row_to_dict(item)
InsertCommit(t) ==
    /\ q_pc[t] = "inserting"
    /\ q_file' = q_snap[t] \cup {q_row[t]}
    /\ q_committed' = q_committed \cup {q_row[t].id}
    /\ q_lock' = IF q_lock = t THEN "none" ELSE q_lock
    /\ q_ret' = [q_ret EXCEPT ![t] = q_row[t].id]
    /\ q_pc' = [q_pc EXCEPT ![t] = "idle"]
    /\ q_snap' = [q_snap EXCEPT ![t] = {}]
    /\ q_row' = [q_row EXCEPT ![t] = NoRow]
    /\ UNCHANGED <<q_del, q_prune, q_seen, q_deleted, q_next, OtherVarsOfDb>>

\* rows = conn.execute("SELECT * FROM ...").fetchall() of fetch_records
FetchCommitted(t) ==
    /\ q_pc[t] = "idle"
    /\ q_seen' = q_file
    /\ UNCHANGED <<q_file, q_lock, q_pc, q_snap, q_row, q_del, q_prune, q_ret,
                   q_committed, q_deleted, q_next, OtherVarsOfDb>>

\* the sets of ids that records[keep:] can hold: fetch_records orders by
\* datetime(created_at) DESC only, so rows of the same second come in any
\* order
ToDeleteChoices(rows, keep) ==
    { FileIds(d) : d \in { x \in SUBSET rows :
                              /\ Cardinality(x) = Cardinality(rows) - keep
                              /\ \A r \in x, y \in rows \ x :
                                    r.created_at <= y.created_at } }

\* records = fetch_records(table); if len(records) <= keep: return;
\* to_delete = records[keep:]
PruneFetch(t, keep) ==
    /\ q_pc[t] = "idle"
    /\ Cardinality(q_file) > keep
    /\ \E ids \in ToDeleteChoices(q_file, keep) :
          q_del' = [q_del EXCEPT ![t] = [done |-> FALSE, keep |-> keep,
                                         read |-> FileIds(q_file), ids |-> ids,
                                         present |-> {}]]
    /\ q_pc' = [q_pc EXCEPT ![t] = "pruning"]
    /\ UNCHANGED <<q_file, q_lock, q_snap, q_row, q_prune, q_ret, q_seen, q_committed,
                   q_deleted, q_next, OtherVarsOfDb>>

\* the DELETE statements of prune_embeddings
PruneExecute(t) ==
    /\ q_pc[t] = "pruning"
    /\ MayWrite(q_lock)
    /\ q_lock' = t
    /\ q_snap' = [q_snap EXCEPT ![t] = q_file]
    /\ q_pc' = [q_pc EXCEPT ![t] = "deleting"]
    /\ UNCHANGED <<q_file, q_row, q_del, q_prune, q_ret, q_seen, q_committed, q_deleted,
                   q_next, OtherVarsOfDb>>

\* conn.commit() of prune_embeddings
PruneCommit(t) ==
    /\ q_pc[t] = "deleting"
    /\ q_file' = {r \in q_snap[t] : r.id \notin q_del[t].ids}
    /\ q_deleted' = q_deleted \cup (q_del[t].ids \cap FileIds(q_snap[t]))
    /\ q_prune' = [q_del[t] EXCEPT !.done = TRUE, !.present = q_snap[t],
                                   !.ids = q_del[t].ids \cap FileIds(q_snap[t])]
    /\ q_lock' = IF q_lock = t THEN "none" ELSE q_lock
    /\ q_del' = [q_del EXCEPT ![t] = NoPrune]
    /\ q_pc' = [q_pc EXCEPT ![t] = "idle"]
    /\ q_snap' = [q_snap EXCEPT ![t] = {}]
    /\ UNCHANGED <<q_row, q_ret, q_seen, q_committed, q_next, OtherVarsOfDb>>

ThreadInserts == \E t \in Connections : InsertExecute(t)
ThreadFindsFileLocked == \E t \in Connections : WriteBusy(t)
ThreadCommitsInsert == \E t \in Connections : InsertCommit(t)
ThreadFetches == \E t \in Connections : FetchCommitted(t)
ThreadStartsPrune == \E t \in Connections, keep \in 0..1 : PruneFetch(t, keep)
ThreadDeletes == \E t \in Connections : PruneExecute(t)
ThreadCommitsPrune == \E t \in Connections : PruneCommit(t)

InitDb ==
    /\ DbIdle /\ CliIdle /\ CosIdle /\ EmbIdle /\ TaskIdle /\ LoopIdle /\ SupIdle /\ HistIdle
    /\ MemIdle /\ RetryIdle /\ ident_name = << >>
NextDb ==
    \/ Tick
    \/ ThreadInserts
    \/ ThreadFindsFileLocked
    \/ ThreadCommitsInsert
    \/ ThreadFetches
    \/ ThreadStartsPrune
    \/ ThreadDeletes
    \/ ThreadCommitsPrune
SpecDb == InitDb /\ [][NextDb]_vars

(***************************************************************************)
(* The local store searched with vectors of any length: store_embedding    *)
(* and top_k_embeddings of utils/offline_store.py take whatever sequence   *)
(* the caller passes, the empty one included.                              *)
(***************************************************************************)
SearchVectors == { << >>, <<1, 0>>, <<1, 1>>, <<1, 0, 0>> }

SearchStore ==
    /\ \E content \in {<<"a">>}, embedding \in SearchVectors :
          LocalStoreEmbedding(TiMemory, content, embedding)
    /\ UNCHANGED <<retryVars, ident_name, auxVars>>

SearchTopK ==
    /\ \E query_vector \in SearchVectors, k \in 0..MaxTopK :
          TopKEmbeddings(TiMemory, query_vector, k)
    /\ UNCHANGED <<retryVars, ident_name, auxVars>>

InitSearch == InitLocal
NextSearch ==
    \/ Tick
    \/ SearchStore
    \/ SearchTopK
SpecSearch == InitSearch /\ [][NextSearch]_vars

(***************************************************************************)
(* ainsert_record: the coroutine awaits                                    *)
(* loop.run_in_executor(None, insert_record, ...), so inner runs with its  *)
(* time.sleep calls on a thread of the default executor.  Cancelling the   *)
(* awaiting task raises CancelledError in the coroutine; a function that   *)
(* is already running on the executor thread is not interrupted, and       *)
(* inner reads no cancellation flag.                                       *)
(***************************************************************************)
\* the task awaiting ainsert_record is cancelled while inner is running
CancelAwait ==
    /\ r_pc \in {"loop", "sleep"}
    /\ a_cancelled_at = 0 - 1
    /\ a_cancelled_at' = Len(r_events)
    /\ UNCHANGED <<retryVars, memVars, ident_name, cosVars, embVars, cliVars, dbVars,
                   loopVars, supVars, histVars>>

InitCancel == InitRetry
NextCancel ==
    \/ RetryCallReturns
    \/ RetryCallRaises
    \/ RetrySleep
    \/ RetryExit
    \/ CancelAwait
SpecCancel == InitCancel /\ [][NextCancel]_vars

(***************************************************************************)
(* The route handlers on the event loop.  Every handler is an `async def`, *)
(* so its body runs on the one event-loop thread; a call wrapped in        *)
(* run_in_threadpool runs on a worker thread while the coroutine is        *)
(* suspended, a call made directly runs on the event-loop thread and       *)
(* nothing else is scheduled until it returns.                             *)
(***************************************************************************)
OtherVarsOfLoop == <<retryVars, memVars, ident_name, cosVars, embVars, cliVars, dbVars,
                     taskVars, supVars, histVars>>

Handlers == {"retrieve_memories", "create_embedding", "memory_search"}

\* the blocking calls a handler makes, in order, and whether each is wrapped in
\* run_in_threadpool.  create_embedding ends at insert_record(table, {...}),
\* which raises TypeError when called; memory_search calls search_memory
\* directly, whose generate_embedding is the only call that reaches a
\* provider: fetch_records("tiwhanawhana.ti_memory") finds no client for
\* that project and returns without a request.
HandlerCalls(h) ==
    CASE h = "retrieve_memories" ->
           << [call |-> "embed", offloaded |-> TRUE],
              [call |-> "search", offloaded |-> TRUE] >>
      [] h = "create_embedding" ->
           << [call |-> "embed", offloaded |-> TRUE] >>
      [] h = "memory_search" ->
           << [call |-> "embed", offloaded |-> FALSE] >>
      [] OTHER -> << >>

\* a blocking call is running on the event-loop thread
LoopBlocked == \E r \in Requests : e_pc[r] = "blocked" /\ e_thread[r] = "loop"

\* the event loop starts the handler of a request
RequestArrives(r, h) ==
    /\ e_pc[r] = "idle" /\ ~LoopBlocked
    /\ e_handler' = [e_handler EXCEPT ![r] = h]
    /\ e_step' = [e_step EXCEPT ![r] = 1]
    /\ e_pc' = [e_pc EXCEPT ![r] = "ready"]
    /\ e_thread' = [e_thread EXCEPT ![r] = "none"]
    /\ UNCHANGED OtherVarsOfLoop

\* the coroutine reaches its next blocking call
CallStarts(r) ==
    /\ e_pc[r] = "ready" /\ ~LoopBlocked
    /\ e_step[r] <= Len(HandlerCalls(e_handler[r]))
    /\ e_pc' = [e_pc EXCEPT ![r] = "blocked"]
    /\ e_thread' = [e_thread EXCEPT ![r] =
                       IF HandlerCalls(e_handler[r])[e_step[r]].offloaded
                         THEN "worker" ELSE "loop"]
    /\ UNCHANGED <<e_handler, e_step, OtherVarsOfLoop>>

\* the blocking call returns or raises
CallEnds(r) ==
    /\ e_pc[r] = "blocked"
    /\ e_pc' = [e_pc EXCEPT ![r] = "ready"]
    /\ e_thread' = [e_thread EXCEPT ![r] = "none"]
    /\ e_step' = [e_step EXCEPT ![r] = @ + 1]
    /\ UNCHANGED <<e_handler, OtherVarsOfLoop>>

\* the handler returns or raises HTTPException: the response is sent
HandlerEnds(r) ==
    /\ e_pc[r] = "ready" /\ ~LoopBlocked
    /\ e_step[r] > Len(HandlerCalls(e_handler[r]))
    /\ e_pc' = [e_pc EXCEPT ![r] = "idle"]
    /\ UNCHANGED <<e_handler, e_step, e_thread, OtherVarsOfLoop>>

LoopStartsHandler == \E r \in Requests, h \in Handlers : RequestArrives(r, h)
LoopRunsToCall == \E r \in Requests : CallStarts(r)
BlockingCallEnds == \E r \in Requests : CallEnds(r)
LoopSendsResponse == \E r \in Requests : HandlerEnds(r)

InitLoop ==
    /\ LoopIdle /\ SupIdle /\ HistIdle /\ TaskIdle /\ DbIdle /\ CliIdle /\ CosIdle /\ EmbIdle
    /\ MemIdle /\ RetryIdle /\ ident_name = << >>
NextLoop ==
    \/ LoopStartsHandler
    \/ LoopRunsToCall
    \/ BlockingCallEnds
    \/ LoopSendsResponse
SpecLoop == InitLoop /\ [][NextLoop]_vars

(***************************************************************************)
(* The Supabase wrappers of utils/supabase_client.py: query_table,         *)
(* insert_record, fetch_records and fetch_latest.  Each asks               *)
(* get_supabase_client for the client, returns an error response when      *)
(* there is none, and otherwise calls its helper, which is decorated with  *)
(* retry(times=3, delay=0.5), inside try / except Exception.               *)
(***************************************************************************)
\* @retry(times=3, delay=0.5) as the Supabase helpers are decorated
DefaultTimes == 3

Wrappers == {"query_table", "insert_record", "fetch_records", "fetch_latest"}

\* truth value of an Optional[str]
Truthy(error) == error # None /\ error # ""

SupabaseResponseWithoutPostInit(data, count, error, ok) ==
    [data |-> data, count |-> count, error |-> error, ok |-> ok]

\* SupabaseResponse(data, count, error, ok) with its __post_init__
SupabaseResponse(data, count, error, ok) ==
    [data |-> data, count |-> count, error |-> error,
     ok |-> IF Truthy(error) THEN FALSE ELSE ok]

\* except Exception as e
CaughtByExceptException(e) == e \in Errors

\* `if not client` of query_table and insert_record, `if not client or not
\* table` of fetch_records and fetch_latest
Unavailable(w, client, table) ==
    ~client \/ (w \in {"fetch_records", "fetch_latest"} /\ table = << >>)

\* the response of a wrapper that has no client: query_table and
\* insert_record leave ok at its default, the other two pass ok=False
UnavailableResponse(w) ==
    IF w \in {"query_table", "insert_record"}
      THEN SupabaseResponse(None, 0, "Client not available", TRUE)
      ELSE SupabaseResponse(IF w = "fetch_records" THEN << >> ELSE None, 0,
                            "client unavailable or table empty", FALSE)

\* a wrapper is called: up to the call of its helper
WrapperCalled(w, client, table) ==
    /\ s_pc \in {"idle", "done"}
    /\ s_wrapper' = w
    /\ s_client' = client
    /\ IF Unavailable(w, client, table)
         THEN /\ s_pc' = "done"
              /\ s_response' = UnavailableResponse(w)
              /\ r_times' = 0 /\ r_pc' = "idle"
         ELSE /\ s_pc' = "impl"
              /\ s_response' = NoResponse
              /\ r_times' = DefaultTimes /\ r_pc' = "loop"
    /\ r_delay' = IF Unavailable(w, client, table) THEN 0 ELSE 1
    /\ r_attempt' = 0 /\ r_last_exception' = None /\ r_wait_time' = 0
    /\ r_result' = None /\ r_events' = << >> /\ r_outcomes' = << >>
    /\ UNCHANGED <<memVars, ident_name, cosVars, embVars, cliVars, dbVars, taskVars,
                   loopVars, histVars>>

\* the helper returned: return SupabaseResponse(data=..., count=..., ok=True)
WrapperReturns ==
    /\ s_pc = "impl" /\ r_pc = "returned"
    /\ s_response' = SupabaseResponse(r_result, 1, None, TRUE)
    /\ s_pc' = "done"
    /\ UNCHANGED <<s_wrapper, s_client, retryVars, memVars, ident_name, cosVars, embVars,
                   cliVars, dbVars, taskVars, loopVars, histVars>>

\* the helper raised after its last attempt: except Exception as e: return
\* SupabaseResponse(data=..., error=error_msg, ok=False)
WrapperCatches ==
    /\ s_pc = "impl" /\ r_pc = "raised"
    /\ IF CaughtByExceptException(r_result)
         THEN /\ s_response' = SupabaseResponse(
                                  IF s_wrapper = "fetch_records" THEN << >> ELSE None,
                                  0, "failed: " \o r_result, FALSE)
              /\ s_pc' = "done"
         ELSE /\ s_response' = s_response
              /\ s_pc' = "raised"
    /\ UNCHANGED <<s_wrapper, s_client, retryVars, memVars, ident_name, cosVars, embVars,
                   cliVars, dbVars, taskVars, loopVars, histVars>>

DoWrapperCall ==
    \E w \in Wrappers, client \in BOOLEAN, table \in {<< >>, TiMemory} :
        WrapperCalled(w, client, table)

InitSupabase == Init /\ ~offline_mode
NextSupabase ==
    \/ DoWrapperCall
    \/ RetryCallReturns
    \/ RetryCallRaises
    \/ RetrySleep
    \/ RetryExit
    \/ WrapperReturns
    \/ WrapperCatches
SpecSupabase == InitSupabase /\ [][NextSupabase]_vars

(***************************************************************************)
(* Properties of the retry decorator.                                      *)
(***************************************************************************)
CallEvents == {i \in 1..Len(r_events) : r_events[i].kind = "call"}
SleepEvents == {i \in 1..Len(r_events) : r_events[i].kind = "sleep"}
FailedAttempts == {i \in 1..Len(r_outcomes) : ~r_outcomes[i].ok}
RetryFinished == r_pc \in {"returned", "raised"}

\* C1: with times = N >= 1 and delay = d, when the operation fails on its
\* first f attempts (0 <= f < N) and succeeds on attempt f+1, the call returns
\* that success value, the operation was invoked exactly f+1 times, exactly f
\* sleeps occurred, and the i-th sleep lasted d * 2^(i-1) and took place
\* between attempt i and attempt i+1.
C1_RetrySuccessAfterFailures ==
    (RetryFinished /\ r_outcomes # << >> /\ r_outcomes[Len(r_outcomes)].ok) =>
        LET f == Len(r_outcomes) - 1 IN
        /\ f < r_times
        /\ FailedAttempts = 1..f
        /\ r_pc = "returned"
        /\ r_result = r_outcomes[f + 1].val
        /\ Cardinality(CallEvents) = f + 1
        /\ Cardinality(SleepEvents) = f
        /\ Len(r_events) = 2 * f + 1
        /\ \A i \in 1..f :
            /\ r_events[2 * i - 1] = [kind |-> "call", attempt |-> i, dur |-> 0]
            /\ r_events[2 * i].kind = "sleep"
            /\ r_events[2 * i].dur = r_delay * (2 ^ (i - 1))
        /\ r_events[2 * f + 1] = [kind |-> "call", attempt |-> f + 1, dur |-> 0]

\* reached: maxAttempts = 3, two failures then a success, sleeps d then 2d
C1_Witness ==
    /\ r_pc = "returned" /\ r_times = 3 /\ Len(r_outcomes) = 3
    /\ r_outcomes[3].ok /\ r_result = r_outcomes[3].val
    /\ r_events[2].dur = r_delay /\ r_events[4].dur = 2 * r_delay

\* C2: with times = N >= 1, when every attempt fails, the operation was
\* invoked exactly N times, exactly N-1 sleeps occurred, none of them after
\* the last failed attempt, and the error raised to the caller is the error
\* of the N-th attempt itself.
C2_RetryExhaustedRaisesLast ==
    (RetryFinished /\ r_times >= 1 /\ FailedAttempts = 1..Len(r_outcomes)) =>
        /\ r_pc = "raised"
        /\ Len(r_outcomes) = r_times
        /\ Cardinality(CallEvents) = r_times
        /\ Cardinality(SleepEvents) = r_times - 1
        /\ r_events[Len(r_events)].kind = "call"
        /\ r_result = r_outcomes[r_times].val

\* reached: three failed attempts, the last error differs from the first
C2_Witness ==
    /\ r_pc = "raised" /\ r_times = 3 /\ Len(r_outcomes) = 3
    /\ r_outcomes[1].val # r_outcomes[3].val
    /\ r_result = r_outcomes[3].val

(***************************************************************************)
(* Properties of the memory subsystem.                                     *)
(***************************************************************************)
Min2(a, b) == IF a < b THEN a ELSE b
LocalIds == UNION { {local[t][i].id : i \in 1..Len(local[t])} : t \in SupportedTables }
RemoteIds == {remote[i].id : i \in 1..Len(remote)}
ChosenBackend == IF offline_mode THEN "local" ELSE "remote"
AtLeast(list, min) == SelectSeq(list, LAMBDA item : ~ScoreLess(item.score, min))

\* C3: in offline and in live mode, every search(q, k, minSimilarity) with
\* k >= 1 that returns a list returns at most k results, and when
\* minSimilarity is set every returned result has similarity >= minSimilarity.
C3_SearchBounded ==
    (op.kind = "retrieve" /\ op.status = "ok") =>
        /\ op.k >= 1
        /\ Len(op.results) <= op.k
        /\ op.min.set =>
             \A i \in 1..Len(op.results) : ~ScoreLess(op.results[i].score, op.min)

\* reached: a live search over two stored records that was cut to k = 1 with
\* a threshold set
C3_Witness ==
    /\ ~offline_mode /\ op.kind = "retrieve" /\ op.status = "ok"
    /\ op.min.set /\ op.k = 1 /\ Len(op.ranked) = 2 /\ Len(op.results) = 1

\* C4: for a collection holding n records and keep >= 0, after
\* prune(collection, keep) the collection holds exactly min(keep, n) records
\* and they are the min(keep, n) most recently inserted: every deleted record
\* was inserted before every surviving record.
C4_PruneKeepsMostRecent ==
    (op.kind = "prune" /\ op.status = "ok") =>
        LET before == op.before
            after == local[op.table]
            survivors == {after[i].id : i \in 1..Len(after)}
        IN /\ Len(after) = Min2(op.keep, Len(before))
           /\ \A i, j \in 1..Len(before) :
                (before[i].id \notin survivors /\ before[j].id \in survivors)
                    => before[i].seq < before[j].seq

\* the request was valid, got its embedding and a configured backend
ReachedStorage ==
    op.status \notin {"InvalidInput", "ProviderError", "RuntimeError", "ValueError"}

\* C5: every store and every search is served by exactly one backend, the
\* one the mode flag chooses: offline it uses only the local store and opens
\* no remote connection, live it uses only the remote store; a successful
\* store creates the record in exactly one of the two backends.
C5_OneBackendByMode ==
    (op.kind \in {"store", "search", "retrieve", "create_embedding"}) =>
        /\ op.touched \subseteq {ChosenBackend}
        /\ offline_mode => op.connects = 0
        /\ ReachedStorage => op.touched = {ChosenBackend}
        /\ (op.kind = "store" /\ op.status = "ok") =>
             /\ (op.id \in LocalIds) # (op.id \in RemoteIds)
             /\ (op.id \in LocalIds) = offline_mode

\* C6: in live mode, when the remote insert or the remote search fails, the
\* call fails with the error of the remote store and neither reads nor writes
\* the local store: the local store is unchanged (here: still empty) and no
\* result comes from it; a live call that succeeds was served by the remote
\* store.
C6_NoFallbackToLocal ==
    (~offline_mode /\ op.kind \in {"store", "search", "retrieve"}) =>
        /\ "local" \notin op.touched
        /\ \A t \in SupportedTables : local[t] = << >>
        /\ (op.connects > 0 /\ op.status # "ok") =>
             /\ op.status = "RemoteError"
             /\ op.results = << >>
             /\ op.id = 0
             /\ op.kind = "retrieve" => op.http = 502
        /\ op.status = "ok" => (op.touched = {"remote"} /\ op.queries = 1)

\* reached: a live store whose remote insert failed while the remote store
\* already held a record
C6_Witness ==
    /\ ~offline_mode /\ op.kind = "store" /\ op.status = "RemoteError"
    /\ op.connects = 1 /\ Len(remote) > 0

\* C7: a store with empty text and a search with an empty query are rejected
\* as invalid input before the embedding provider or any store is called: no
\* embedding call, no store call, and no record is created.
C7_EmptyTextRejected ==
    /\ []((op.kind \in {"retrieve", "create_embedding"} /\ op.text = << >>) =>
            /\ op.status = "InvalidInput"
            /\ op.http \in {400, 422}
            /\ op.embed_calls = 0 /\ op.provider_calls = 0
            /\ op.touched = {} /\ op.connects = 0 /\ op.queries = 0)
    /\ [][(op'.kind \in {"retrieve", "create_embedding"} /\ op'.text = << >>) =>
            (local' = local /\ remote' = remote /\ next_id' = next_id)]_vars

\* reached: an empty query rejected in live mode with a record stored
C7_Witness ==
    /\ op.kind = "retrieve" /\ op.text = << >> /\ op.status = "InvalidInput"
    /\ ~offline_mode /\ Len(remote) > 0

LocalSearchDone ==
    offline_mode /\ op.kind \in {"search", "retrieve"} /\ op.status = "ok"

\* C8 as claimed: in the local store's search, of two records with equal
\* similarity the one inserted earlier is ranked first.
C8_EarlierWinsTies ==
    LocalSearchDone =>
        \A i, j \in 1..Len(op.ranked) :
            (i < j /\ ScoreEq(op.ranked[i].score, op.ranked[j].score))
                => op.ranked[i].seq < op.ranked[j].seq

\* C8 as amended: in the local store's search, of two records with equal
\* similarity and different created_at the one with the later created_at is
\* ranked first, so when only one of them fits within the top k it is the
\* later one that is returned.
C8_LaterWinsTies ==
    LocalSearchDone =>
        /\ \A i, j \in 1..Len(op.ranked) :
            (i < j /\ ScoreEq(op.ranked[i].score, op.ranked[j].score))
                => op.ranked[i].created_at >= op.ranked[j].created_at
        /\ op.kind = "search" => op.results = SubSeq(op.ranked, 1, Len(op.results))

\* reached: two records of equal similarity stored in different seconds, one
\* of them cut off by k = 1
C8_Witness ==
    /\ LocalSearchDone /\ op.kind = "search" /\ Len(op.ranked) = 2 /\ op.k = 1
    /\ ScoreEq(op.ranked[1].score, op.ranked[2].score)
    /\ op.ranked[1].created_at > op.ranked[2].created_at
    /\ op.ranked[1].seq > op.ranked[2].seq
    /\ Len(op.results) = 1 /\ op.results[1].id = op.ranked[1].id

\* C9: in offline mode the list a search returns equals the first k elements
\* of the full ranked list after that list has been filtered to
\* score >= minSimilarity (threshold before truncation).
C9_ThresholdBeforeTruncation ==
    (offline_mode /\ op.kind = "retrieve" /\ op.status = "ok") =>
        LET expected == IF op.min.set THEN AtLeast(op.ranked, op.min) ELSE op.ranked
        IN op.results = SubSeq(expected, 1, Min2(op.k, Len(expected)))

\* reached: two ranked records, k = 1, and a threshold the second misses
C9_Witness ==
    /\ offline_mode /\ op.kind = "retrieve" /\ op.status = "ok"
    /\ Len(op.ranked) = 2 /\ op.k = 1 /\ op.min.set
    /\ ScoreLess(op.ranked[2].score, op.min)
    /\ Len(op.results) = 1

(***************************************************************************)
(* Properties of the identifier check.                                     *)
(***************************************************************************)
PGCallDone == op.kind \in {"pg_insert", "pg_search"}
Dots(name) == {i \in 1..Len(name) : name[i] = "."}
WordChars == Letters \cup Digits \cup {"_"}
\* positions where a non-blank segment of the name starts
SegmentStarts(name) ==
    {i \in 1..Len(name) :
        /\ name[i] \notin {".", " "}
        /\ \A j \in 1..(i - 1) :
            (\A m \in j..(i - 1) : name[m] # ".") => name[j] = " "}
\* a blank inside a segment: word characters of one segment on both sides
BlankInsideSegment(name) ==
    \E i, j, m \in 1..Len(name) :
        /\ i < j /\ j < m /\ name[j] = " "
        /\ name[i] \notin {".", " "} /\ name[m] \notin {".", " "}
        /\ \A x \in i..m : name[x] # "."

\* C10 as claimed: remote insert and search reject, before any connection or
\* query, every name with a character outside [A-Za-z0-9_] other than '.',
\* and every name with more than one '.'; every accepted name has at most
\* one '.'.
C10_StrictIdentifier ==
    PGCallDone =>
        /\ ((\E i \in 1..Len(ident_name) : ident_name[i] \notin WordChars \cup {"."})
              \/ Cardinality(Dots(ident_name)) > 1)
             => (op.status = "ValueError" /\ op.connects = 0 /\ op.queries = 0)
        /\ op.status # "ValueError" => Cardinality(Dots(ident_name)) <= 1

\* C10 as amended: remote insert and search reject, before any connection or
\* query, every name with a character outside [A-Za-z0-9_] other than '.'
\* and blanks around a segment, every name with more than two non-blank
\* dot-separated segments and every name with none; every accepted name has
\* one or two non-blank segments (empty segments are dropped), so the
\* identifier built from it has at most one separator.
C10_NormalisedIdentifier ==
    PGCallDone =>
        /\ ((\E i \in 1..Len(ident_name) : ident_name[i] \notin WordChars \cup {".", " "})
              \/ BlankInsideSegment(ident_name)
              \/ Cardinality(SegmentStarts(ident_name)) \notin {1, 2})
             => (op.status = "ValueError" /\ op.connects = 0 /\ op.queries = 0)
        /\ op.status # "ValueError" =>
             /\ Cardinality(SegmentStarts(ident_name)) \in {1, 2}
             /\ \A i \in SegmentStarts(ident_name) : ident_name[i] \notin Digits
             /\ op.status = "ok" /\ op.kind = "pg_insert" =>
                  Len(remote[Len(remote)].table) = Cardinality(SegmentStarts(ident_name))

\* reached: a name with two dots and a blank that is accepted and inserted
C10_Witness ==
    /\ op.kind = "pg_insert" /\ op.status = "ok"
    /\ Cardinality(Dots(ident_name)) = 2
    /\ \E i \in 1..Len(ident_name) : ident_name[i] = " "

(***************************************************************************)
(* Properties of the local store.                                          *)
(***************************************************************************)
LocalKinds == {"store", "fetch", "top_k", "prune"}
\* the name ends, after its last '.', with an allow-listed name surrounded
\* by blanks only
EndsWithSupported(name) ==
    \E t \in SupportedTables, i \in 1..Len(name) :
        LET j == i + Len(t) - 1 IN
        /\ j <= Len(name)
        /\ SubSeq(name, i, j) = t
        /\ \A m \in (j + 1)..Len(name) : name[m] = " "
        /\ \E s \in 0..(i - 1) :
              /\ s = 0 \/ name[s] = "."
              /\ \A m \in (s + 1)..(i - 1) : name[m] = " "

\* C11 as claimed: every local-store operation (insert, fetch, search,
\* prune) called with a name that is not one of the allow-listed names
\* fails with ValueError (UnsupportedCollection).
C11_OnlyListedNames ==
    (op.kind \in LocalKinds /\ op.name \notin SupportedTables)
        => op.status = "ValueError"

\* C11 as amended: every local-store operation called with a name whose
\* part after the last '.', trimmed of blanks, is not allow-listed fails
\* with ValueError and leaves every collection unchanged; a name whose
\* last part, trimmed, is allow-listed is accepted as that collection.
C11_LastSegmentListed ==
    /\ [](op.kind \in LocalKinds =>
            /\ ~EndsWithSupported(op.name) =>
                  (op.status = "ValueError" /\ op.touched = {} /\ op.results = << >>)
            /\ (EndsWithSupported(op.name) /\ op.kind # "top_k") => op.status = "ok")
    /\ [][(op'.kind \in LocalKinds /\ ~EndsWithSupported(op'.name))
            => (local' = local /\ next_id' = next_id)]_vars

\* reached: a prune under a name that is not accepted while the store holds
\* two records
C11_Witness ==
    /\ op.kind = "prune" /\ op.status = "ValueError"
    /\ op.name = TiMemory \o <<".", "x">>
    /\ Len(local[TiMemory]) = 2

(***************************************************************************)
(* Properties of cosine_similarity.                                        *)
(***************************************************************************)
ZeroMagnitude(v) == \A i \in 1..Len(v) : v[i] = 0

\* C12 as claimed: for all vectors a and b with len(a) # len(b), also when
\* exactly one of them is empty, cosine_similarity raises the ValueError
\* (DimensionMismatch) and returns no score.
C12_MismatchAlwaysRaises ==
    (cos_out.called /\ Len(cos_a) # Len(cos_b)) => cos_out.raised

\* C12 as amended: for all non-empty vectors a and b with len(a) # len(b),
\* cosine_similarity raises the ValueError and returns no score; when
\* exactly one of a and b is empty it raises nothing and returns 0.0.
C12_NonEmptyMismatchRaises ==
    (cos_out.called /\ Len(cos_a) # Len(cos_b)) =>
        IF Len(cos_a) = 0 \/ Len(cos_b) = 0
          THEN ~cos_out.raised /\ cos_out.num = 0
          ELSE cos_out.raised

\* reached: the call with non-zero vectors of lengths 1 and 2
C12_Witness ==
    /\ cos_out.called /\ Len(cos_a) = 1 /\ Len(cos_b) = 2
    /\ ~ZeroMagnitude(cos_a) /\ ~ZeroMagnitude(cos_b) /\ cos_out.raised

C15_ProviderFailureSurfaced ==
    /\ [](op.provider_failed =>
            /\ op.kind \in {"retrieve", "create_embedding"}
            /\ op.status = "ProviderError" /\ op.http = 502
            /\ op.qv = << >> /\ op.results = << >> /\ op.id = 0
            /\ op.touched = {} /\ op.connects = 0 /\ op.queries = 0)
    /\ [][op'.provider_failed =>
            (local' = local /\ remote' = remote /\ next_id' = next_id)]_vars

\* reached: a search whose embedding failed while the remote store holds a
\* record
C15_Witness ==
    /\ op.kind = "retrieve" /\ op.provider_failed /\ op.status = "ProviderError"
    /\ ~offline_mode /\ Len(remote) > 0

\* C16: every remote vector-store insert and search runs under the retry
\* policy: the error of the remote store reaches the caller only after
\* DefaultTimes attempts to connect have all failed.
C16_RemoteCallsRetried ==
    (op.kind \in {"store", "search", "retrieve"} /\ op.status = "RemoteError")
        => op.connects = DefaultTimes

(***************************************************************************)
(* Properties of the records of the local store.                           *)
(***************************************************************************)
IdsIn(rows) == {rows[i].id : i \in 1..Len(rows)}
RowsIn(rows) == {rows[i] : i \in 1..Len(rows)}
AllLocalRows == UNION {RowsIn(local[t]) : t \in SupportedTables}

C19_ClientsConstructedOnce ==
    /\ \A g \in Getters : c_built[g] <= 1
    /\ \A t, u \in Threads :
          (c_pc[t] = "done" /\ c_pc[u] = "done" /\ c_getter[t] = c_getter[u])
              => c_handle[t] = c_handle[u]

(***************************************************************************)
(* Properties of the SQLite file under concurrent calls.                   *)
(***************************************************************************)
Writing == {t \in Connections : q_pc[t] \in {"inserting", "deleting"}}

C21_NoAttemptAfterCancel ==
    a_cancelled_at >= 1 =>
        \A i \in (a_cancelled_at + 1)..Len(r_events) : r_events[i].kind # "call"

\* C28: for every times >= 0, inner returns normally only with the value
\* produced by a successful invocation of the wrapped function.
C28_ReturnIsSuccessValue ==
    r_pc = "returned" =>
        /\ r_outcomes # << >>
        /\ r_outcomes[Len(r_outcomes)].ok
        /\ r_result = r_outcomes[Len(r_outcomes)].val

(***************************************************************************)
(* Properties of the handlers on the event loop.                           *)
(***************************************************************************)
\* C22: every embedding call, store call and backoff sleep made for a
\* request runs on a worker thread and never on the event-loop thread, so
\* that a request blocked in such a call never keeps the others from
\* taking a step.
C22_BlockingCallsOffloaded ==
    \A r \in Requests : e_pc[r] = "blocked" => e_thread[r] = "worker"

(***************************************************************************)
(* Properties of the error responses.                                      *)
(***************************************************************************)
\* the two groups of response classes
ClientClass == {400, 422}
ServerClass == {500, 502}

\* C23: every failed store or search request is answered with the class of
\* its error category: invalid input and a dimension mismatch with a
\* 400-class response, an unavailable provider and a failure of the store
\* with a 502/500-class response, never one group with the other's class.
C23_ErrorClassByCategory ==
    (op.kind \in {"retrieve", "create_embedding"} /\ op.status # "ok") =>
        /\ op.http \in ClientClass \cup ServerClass
        /\ (op.status = "InvalidInput" \/ op.dim_mismatch) => op.http \in ClientClass
        /\ (op.provider_failed \/ (op.status = "RemoteError" /\ ~op.dim_mismatch))
              => op.http \in ServerClass

(***************************************************************************)
(* Properties of the local search.                                         *)
(***************************************************************************)
\* the embeddings stored in the searched table, as the search reads them
StoredEmbeddings == { RowToDict(local[TiMemory][i]).embedding : i \in 1..Len(local[TiMemory]) }

LocalTopKDone == op.kind = "top_k" /\ op.table = TiMemory

SimilarityOf(row) == CosineSimilarity(op.qv, RowToDict(row).embedding).score

\* C26: over a table of n records a successful local search returns
\* exactly min(k, n) of them, in non-increasing order of similarity to the
\* query, and no record left out is strictly more similar than a record
\* returned.
C26_TopKComplete ==
    (LocalTopKDone /\ op.status = "ok") =>
        LET rows == local[TiMemory]
            res == op.results
            returned == { res[i].id : i \in 1..Len(res) }
        IN /\ Len(res) = Min2(op.k, Len(rows))
           /\ Cardinality(returned) = Len(res)
           /\ \A i \in 1..Len(res) :
                 \E j \in 1..Len(rows) :
                    rows[j].id = res[i].id /\ res[i].score = SimilarityOf(rows[j])
           /\ \A i, j \in 1..Len(res) :
                 i < j => ~ScoreLess(res[i].score, res[j].score)
           /\ \A j \in 1..Len(rows) :
                 rows[j].id \notin returned =>
                    \A i \in 1..Len(res) : ~ScoreLess(res[i].score, SimilarityOf(rows[j]))

\* reached: a search for one record over two records of different
\* similarity, the less similar one stored first
C26_Witness ==
    /\ LocalTopKDone /\ op.status = "ok" /\ op.k = 1 /\ op.qv = <<1, 0>>
    /\ Len(local[TiMemory]) = 2
    /\ RowToDict(local[TiMemory][1]).embedding = <<1, 1>>
    /\ RowToDict(local[TiMemory][2]).embedding = <<1, 0>>
    /\ Len(op.results) = 1 /\ op.results[1].id = local[TiMemory][2].id

(***************************************************************************)
(* Properties of the Supabase wrappers.                                    *)
(***************************************************************************)
\* C25: the Supabase wrappers never raise to their caller: a call without
\* a client and a call whose helper still fails after its last attempt both
\* end with a returned response with ok = false and a non-empty error, and
\* every response returned has ok = true exactly when it has no error.
C25_WrappersReturnErrors ==
    /\ s_pc # "raised"
    /\ s_pc = "done" =>
          /\ s_response.ok = (s_response.error = None)
          /\ (~s_client \/ r_pc = "raised" \/ r_pc = "idle") =>
                (~s_response.ok /\ Truthy(s_response.error))
          /\ r_pc = "returned" => (s_response.ok /\ s_response.data = r_result)

\* reached: insert_record returned an error response after its helper had
\* failed on all three attempts
C25_Witness ==
    /\ s_pc = "done" /\ s_wrapper = "insert_record" /\ s_client
    /\ r_pc = "raised" /\ Len(r_outcomes) = DefaultTimes
    /\ ~s_response.ok /\ Truthy(s_response.error)

(***************************************************************************)
(* Properties of the mode flag.                                            *)
(***************************************************************************)
\* C27: the offline/live flag never changes while the process runs, and
\* every embed, store and search call follows it: offline the embedding is
\* the deterministic one, no provider is called and only the local store
\* is used; live the embedding comes from the provider and only the remote
\* store is used.
C27_ModeFixedAndConsistent ==
    /\ [][offline_mode' = offline_mode]_vars
    /\ []((op.kind \in {"store", "search", "retrieve", "create_embedding"}) =>
            /\ op.touched \subseteq {ChosenBackend}
            /\ offline_mode =>
                  /\ op.provider_calls = 0 /\ op.connects = 0 /\ op.queries = 0
                  /\ (op.kind = "retrieve" /\ op.status = "ok")
                        => op.qv = OfflineEmbedding(op.text)
            /\ ~offline_mode =>
                  /\ op.provider_calls = op.embed_calls
                  /\ (op.kind = "retrieve" /\ op.status = "ok")
                        => op.qv \in ProviderVectors)

\* reached: offline, a search answered from the local store with the
\* deterministic embedding of its query after a store into the local store
C27_Witness ==
    /\ offline_mode /\ op.kind = "retrieve" /\ op.status = "ok"
    /\ op.qv = OfflineEmbedding(op.text) /\ op.touched = {"local"}
    /\ Len(local[TiMemory]) > 0 /\ remote = << >>

(***************************************************************************)
(* Properties of a prune running next to inserts.                          *)
(***************************************************************************)
\* C29: a prune running next to inserts deletes only records that it read,
\* so a record committed after its read is never deleted by it, and the
\* keep most recently inserted records present when it commits all survive.
C29_PruneSparesNewest ==
    q_prune.done =>
        /\ q_prune.ids \subseteq q_prune.read
        /\ \A r \in q_prune.present :
              Cardinality({x \in q_prune.present : x.id > r.id}) < q_prune.keep
                  => r.id \notin q_prune.ids

(***************************************************************************)
(* routes/tiwhanawhana/memory.py and services/tiwhanawhana.py:             *)
(* GET /tiwhanawhana/memory/search.  search_memory embeds the query and    *)
(* calls supabase_client.fetch_records("tiwhanawhana.ti_memory"): the      *)
(* argument binds to project, table keeps its default "", and the wrapper  *)
(* returns its SupabaseResponse for a missing client or table.  The        *)
(* scoring loop iterates over that response.  After search_memory the      *)
(* handler builds a record with memory_type "search_query" and calls       *)
(* insert_record("tiwhanawhana.ti_memory", record).                        *)
(***************************************************************************)
\* fetch_records("tiwhanawhana.ti_memory") as search_memory calls it
SearchMemoryFetch ==
    IF Unavailable("fetch_records", FALSE, << >>)
      THEN UnavailableResponse("fetch_records")
      ELSE SupabaseResponse(<< >>, 0, None, TRUE)

\* `for record in records`: SupabaseResponse is a dataclass without
\* __iter__, so iterating over one raises TypeError
IterableResponse(response) == FALSE

\* memory_search(q, limit): an error of search_memory is answered with 502
\* before the search_query record is built, so insert_record is not reached
MemorySearch(q, limit) ==
    LET base == [OpBase EXCEPT !.kind = "memory_search", !.text = q,
                               !.table = MemoryTable, !.k = limit]
    IN
    /\ UNCHANGED <<offline_mode, now, local, remote, next_id>>
    /\ IF ~PassesMinLength(q)
         THEN op' = [base EXCEPT !.status = "InvalidInput", !.http = 422]
       ELSE \E emb \in EmbeddingOutcomes(q) :
              IF ~emb.ok
                THEN op' = [base EXCEPT !.status = "ProviderError", !.http = 502,
                                        !.embed_calls = 1,
                                        !.provider_calls = emb.provider_calls,
                                        !.provider_failed = emb.failed]
                ELSE /\ ~IterableResponse(SearchMemoryFetch)
                     /\ op' = [base EXCEPT !.status = "TypeError", !.http = 502,
                                           !.embed_calls = 1,
                                           !.provider_calls = emb.provider_calls,
                                           !.provider_failed = emb.failed]

\* what a call of the gateway or of a search route leaves alone
OtherVarsOfQuery ==
    <<retryVars, ident_name, cosVars, embVars, cliVars, dbVars, taskVars, loopVars,
      supVars>>

\* the call that ends in this step is the search that ended last, issued
\* again with the same arguments, with no store call in between, and both
\* returned a list
SearchRepeated ==
    /\ op.kind \in {"search", "retrieve", "memory_search"} /\ op'.kind = op.kind
    /\ op'.table = op.table /\ op'.text = op.text /\ op'.qv = op.qv
    /\ op'.k = op.k /\ op'.min = op.min
    /\ op.status = "ok" /\ op'.status = "ok"

QueryStore ==
    /\ \E table \in GatewayTables, x \in StoreInputs(offline_mode) :
          StoreEmbedding(table, x.content, x.embedding)
    /\ repeated' = FALSE
    /\ UNCHANGED OtherVarsOfQuery

QuerySearch ==
    /\ \E table \in GatewayTables, qv \in QueryVectors, k \in TopKs :
          SearchEmbeddings(table, qv, k)
    /\ repeated' = SearchRepeated
    /\ UNCHANGED OtherVarsOfQuery

QueryRetrieve ==
    /\ \E query \in Queries, k \in TopKs, min \in MinSimilarities :
          RetrieveMemories(query, k, min)
    /\ repeated' = SearchRepeated
    /\ UNCHANGED OtherVarsOfQuery

QueryMemorySearch ==
    /\ \E q \in Queries, limit \in TopKs : MemorySearch(q, limit)
    /\ repeated' = SearchRepeated
    /\ UNCHANGED OtherVarsOfQuery

\* stores and searches through the gateway and the search routes
InitQuery == Init
NextQuery ==
    \/ Tick
    \/ QueryStore
    \/ QuerySearch
    \/ QueryRetrieve
    \/ QueryMemorySearch
SpecQuery == InitQuery /\ [][NextQuery]_vars

(***************************************************************************)
(* Properties of searches as readers of the collection.                    *)
(***************************************************************************)
SearchKinds == {"search", "retrieve", "memory_search"}

SameScore(a, b) == ~ScoreLess(a, b) /\ ~ScoreLess(b, a)

\* two ranked records whose order the code does not fix: equal similarity
\* and, in the local store, created in the same second
OrderOpen(ranked) ==
    \E i, j \in 1..Len(ranked) :
        /\ i # j
        /\ SameScore(ranked[i].score, ranked[j].score)
        /\ offline_mode => ranked[i].created_at = ranked[j].created_at

====
